---- MODULE Spec2Model ----
(***************************************************************************)
(* Verification development for lxfu (face verification for Linux login).  *)
(*                                                                         *)
(* Part 1: the verification session of the D-Bus service                   *)
(* (src/src/face_service.cpp): the request-handling thread that            *)
(* dispatches Claim / Release / VerifyStart / VerifyStop one at a time,    *)
(* and the worker thread spawned by VerifyStart.  The two threads share    *)
(* the atomics claimed_, verifying_, stop_requested_ and the thread        *)
(* handle worker_thread_; every access to them is a step of the model.     *)
(***************************************************************************)
EXTENDS Naturals, Integers, Sequences, FiniteSets, TLC

\* ---------------------------------------------------------------- bounds
\* number of worker threads ever spawned in one behaviour
MaxRuns == 2
\* number of frames successfully read in one capture window
MaxFrames == 1
\* similarity and threshold values range over 0..MaxSim
MaxSim == 1

Runs == 1..MaxRuns
Sims == 0..MaxSim

VARIABLES
    claimed,         \* std::atomic_bool claimed_
    verifying,       \* std::atomic_bool verifying_
    stop_requested,  \* std::atomic_bool stop_requested_
    worker_thread,   \* std::thread worker_thread_: 0 = not joinable, r = handle of run r
    nruns,           \* number of threads spawned so far
    wpc,             \* position of each worker thread in verification_worker
    wloc,            \* locals of each worker thread
    notes,           \* VerificationStatus signals emitted so far, in order
    mainpc,          \* position of the request-handling thread
    reply,           \* the method reply sent by the last step, if it sent one
    step,            \* label of the last step taken
    pre,             \* session as the pending Release/VerifyStop found it on entry;
                     \* once it has returned, only whether a worker was running
    lock,            \* which bus client made the last call and which clients hold a
                     \* Claim they have not released (kept only when lock.tracking)
    match,           \* one call of a pure function: its arguments and result
    config,          \* the configuration loaded by the constructor
    env,             \* MDB_env: the committed records and the transactions of a
                     \* writing and a reading process on them
    prog             \* a program outside the service (pam_sm_authenticate, lxfu
                     \* enroll, the service's main with its signal handler): its
                     \* position and locals

vars == <<claimed, verifying, stop_requested, worker_thread, nruns, wpc, wloc,
          notes, mainpc, reply, step, pre, lock, match, config, env, prog>>

flags == <<claimed, verifying, stop_requested>>
threads == <<worker_thread, nruns, wpc, wloc>>

\* ---------------------------------------------------------------- helpers
NoLocals == [dur |-> FALSE, thr |-> 0, frames |-> 0, faces |-> 0,
             fallback |-> FALSE, miss |-> FALSE, out |-> "none", detail |-> "", avg |-> 0]
NoPre == [running |-> FALSE, claimed |-> FALSE, verifying |-> FALSE,
          stop |-> FALSE, nnotes |-> 0]

Terminal == {"verify-match", "verify-no-match", "verify-no-face",
             "verify-error", "verify-cancelled"}

LiveWorkers == {r \in Runs : wpc[r] \notin {"unborn", "exited"}}

\* the cv::VideoCapture of capture_faces is open from open_video_capture
\* to cap.release() (or to its destructor when an exception unwinds)
DeviceOpen(r) == wpc[r] \in {"warmup", "capture", "post"}

\* std::thread::joinable / join: join returns once the thread has exited
Joinable == worker_thread # 0
JoinReturns == IF Joinable THEN wpc[worker_thread] = "exited" ELSE TRUE

Snapshot == [running |-> LiveWorkers # {}, claimed |-> claimed,
             verifying |-> verifying, stop |-> stop_requested,
             nnotes |-> Len(notes)]

Returned == [NoPre EXCEPT !.running = pre.running]

NotesOf(r) == SelectSeq(notes, LAMBDA n : n.run = r)
TerminalsOf(r) == SelectSeq(notes, LAMBDA n : n.run = r /\ n.kind \in Terminal)

\* a VerificationStatus(status, message) signal; avg stands for the
\* similarity printed in the message of a scored outcome
emit_status_signal(r, kind, detail, avg) ==
    notes' = Append(notes, [run |-> r, kind |-> kind, detail |-> detail, avg |-> avg])

\* the session as the FaceService constructor leaves it
\* a process that is not inside a store operation
Idle ==
    [pc |-> "idle", op |-> "none", name |-> "", embedding |-> <<>>,
     view |-> <<>>, before |-> <<>>, txn |-> FALSE,
     status |-> "none", count |-> 0, list |-> <<>>, entries |-> <<>>,
     found |-> FALSE, size |-> 0, at |-> 0]
\* no environment opened
NoEnv == [data |-> <<>>, log |-> <<>>, w |-> Idle, r |-> Idle]

\* no such program is looked at
NoProgram == [pc |-> "off"]

SessionInit ==
    /\ claimed = FALSE
    /\ verifying = FALSE
    /\ stop_requested = FALSE
    /\ worker_thread = 0
    /\ nruns = 0
    /\ wpc = [r \in Runs |-> "unborn"]
    /\ wloc = [r \in Runs |-> NoLocals]
    /\ notes = << >>
    /\ mainpc = "idle"
    /\ reply = "none"
    /\ step = "Init"
    /\ pre = NoPre

\* the profile names of the store
Names == {"a", "b"}
\* the name of the candidate compute_best_match returns to the worker, which
\* passes it on without looking at it: one name stands for all
Matched == {"a"}

\* the bus clients that call the Device methods
Clients == {"c1", "c2"}

NoLock == [tracking |-> FALSE, caller |-> "none", holders |-> {}]
NoCall == [pc |-> "off"]

\* the settings the constructor loads once: whether service_capture_duration
\* is positive, and the threshold
Configs == [dur : BOOLEAN, thr : Sims]
NoConfig == [dur |-> FALSE, thr |-> 0]

Init ==
    /\ SessionInit
    /\ lock = NoLock
    /\ match = NoCall
    /\ config \in Configs
    /\ env = NoEnv
    /\ prog = NoProgram

\* The handlers never read the sender of the message.  Track records, for a
\* step of a handler, the client that sent the call and the set of clients
\* whose successful Claim has not been followed by their own Release.
Track ==
    /\ UNCHANGED <<match, config, env, prog>>
    /\ IF ~lock.tracking
         THEN UNCHANGED lock
         ELSE IF mainpc = "idle"
           THEN \E c \in Clients :
                  lock' = [lock EXCEPT
                             !.caller = c,
                             !.holders = IF step' = "Claim" /\ reply' = "ok"
                                           THEN @ \cup {c}
                                           ELSE IF step' = "Release" THEN @ \ {c} ELSE @]
           ELSE lock' = [lock EXCEPT
                           !.holders = IF step' = "ReleaseRet"
                                         THEN @ \ {lock.caller} ELSE @]

\* ------------------------------------------------- request-handling thread
\* mutant: Claim() tests verifying_ where the code tests claimed_
handle_claim_tests_verifying ==
    /\ mainpc = "idle"
    /\ step' = "Claim"
    /\ IF verifying
         THEN /\ reply' = "EBUSY"
              /\ UNCHANGED claimed
         ELSE /\ claimed' = TRUE
              /\ reply' = "ok"
    /\ UNCHANGED <<verifying, stop_requested, threads, notes, mainpc, pre>>
    /\ Track

\* Claim()
handle_claim ==
    /\ mainpc = "idle"
    /\ step' = "Claim"
    /\ IF claimed
         THEN /\ reply' = "EBUSY"
              /\ UNCHANGED claimed
         ELSE /\ claimed' = TRUE
              /\ reply' = "ok"
    /\ UNCHANGED <<verifying, stop_requested, threads, notes, mainpc, pre>>
    /\ Track

\* Release() on an unclaimed session: replies at once
handle_release_idle ==
    /\ mainpc = "idle"
    /\ ~claimed
    /\ step' = "Release"
    /\ reply' = "ok"
    /\ UNCHANGED <<flags, threads, notes, mainpc, pre>>
    /\ Track

\* mutant: Release() drops claimed_ before it stops the verification
handle_release_begin_drops_claim ==
    /\ mainpc = "idle"
    /\ claimed
    /\ step' = "ReleaseBegin"
    /\ stop_requested' = TRUE
    /\ claimed' = FALSE
    /\ mainpc' = "rel_join"
    /\ pre' = Snapshot
    /\ UNCHANGED <<verifying, threads, notes, reply>>
    /\ Track

\* Release() on a claimed session, up to the join inside
\* request_stop_verification: takes state_mutex_, sets stop_requested_
handle_release_begin ==
    /\ mainpc = "idle"
    /\ claimed
    /\ step' = "ReleaseBegin"
    /\ stop_requested' = TRUE
    /\ mainpc' = "rel_join"
    /\ pre' = Snapshot
    /\ UNCHANGED <<claimed, verifying, threads, notes, reply>>
    /\ Track

\* mutant: request_stop_verification leaves stop_requested_ set
request_stop_verification_keeps_flag ==
    /\ JoinReturns
    /\ worker_thread' = 0
    /\ verifying' = FALSE
    /\ stop_requested' = TRUE

\* request_stop_verification after stop_requested_.store(true): joins the
\* worker thread if joinable, then clears verifying_ and stop_requested_
request_stop_verification ==
    /\ JoinReturns
    /\ worker_thread' = 0
    /\ verifying' = FALSE
    /\ stop_requested' = FALSE

\* mutant: Release() clears the flags without joining the worker
handle_release_return_no_join ==
    /\ mainpc = "rel_join"
    /\ worker_thread' = 0
    /\ verifying' = FALSE
    /\ stop_requested' = FALSE
    /\ step' = "ReleaseRet"
    /\ claimed' = FALSE
    /\ reply' = "ok"
    /\ mainpc' = "idle"
    /\ pre' = Returned
    /\ UNCHANGED <<nruns, wpc, wloc, notes>>
    /\ Track

\* mutant: Release() joins the worker and leaves stop_requested_ set
handle_release_return_keeps_stop ==
    /\ mainpc = "rel_join"
    /\ JoinReturns
    /\ worker_thread' = 0
    /\ verifying' = FALSE
    /\ stop_requested' = TRUE
    /\ step' = "ReleaseRet"
    /\ claimed' = FALSE
    /\ reply' = "ok"
    /\ mainpc' = "idle"
    /\ pre' = Returned
    /\ UNCHANGED <<nruns, wpc, wloc, notes>>
    /\ Track

\* Release(): the join returns, the flags are cleared, claimed_ is dropped
handle_release_return ==
    /\ mainpc = "rel_join"
    /\ request_stop_verification
    /\ step' = "ReleaseRet"
    /\ claimed' = FALSE
    /\ reply' = "ok"
    /\ mainpc' = "idle"
    /\ pre' = Returned
    /\ UNCHANGED <<nruns, wpc, wloc, notes>>
    /\ Track

\* mutant: VerifyStart does not test verifying_
handle_verify_start_no_verifying_test ==
    /\ mainpc = "idle"
    /\ IF ~claimed
         THEN /\ reply' = "EPERM"
              /\ step' = "VerifyStart"
              /\ UNCHANGED <<verifying, stop_requested, mainpc>>
         ELSE /\ nruns < MaxRuns
              /\ verifying' = TRUE
              /\ stop_requested' = FALSE
              /\ mainpc' = "vs_spawn"
              /\ step' = "VerifyStartBegin"
              /\ UNCHANGED reply
    /\ UNCHANGED <<claimed, threads, notes, pre>>
    /\ Track

\* mutant: VerifyStart does not test claimed_
handle_verify_start_no_claimed_test ==
    /\ mainpc = "idle"
    /\ IF verifying
         THEN /\ reply' = "EALREADY"
              /\ step' = "VerifyStart"
              /\ UNCHANGED <<verifying, stop_requested, mainpc>>
         ELSE /\ nruns < MaxRuns
              /\ verifying' = TRUE
              /\ stop_requested' = FALSE
              /\ mainpc' = "vs_spawn"
              /\ step' = "VerifyStartBegin"
              /\ UNCHANGED reply
    /\ UNCHANGED <<claimed, threads, notes, pre>>
    /\ Track

\* VerifyStart(mode), the part under state_mutex_
handle_verify_start ==
    /\ mainpc = "idle"
    /\ IF ~claimed
         THEN /\ reply' = "EPERM"
              /\ step' = "VerifyStart"
              /\ UNCHANGED <<verifying, stop_requested, mainpc>>
         ELSE IF verifying
           THEN /\ reply' = "EALREADY"
                /\ step' = "VerifyStart"
                /\ UNCHANGED <<verifying, stop_requested, mainpc>>
           ELSE /\ nruns < MaxRuns
                /\ verifying' = TRUE
                /\ stop_requested' = FALSE
                /\ mainpc' = "vs_spawn"
                /\ step' = "VerifyStartBegin"
                /\ UNCHANGED reply
    /\ UNCHANGED <<claimed, threads, notes, pre>>
    /\ Track

\* mutant: start_verification spawns without joining the previous thread
start_verification_no_join ==
    /\ mainpc = "vs_spawn"
    /\ wloc' = [wloc EXCEPT ![nruns + 1] =
                  [NoLocals EXCEPT !.dur = config.dur, !.thr = config.thr]]
    /\ nruns' = nruns + 1
    /\ worker_thread' = nruns + 1
    /\ wpc' = [wpc EXCEPT ![nruns + 1] = "start"]
    /\ reply' = "ok"
    /\ mainpc' = "idle"
    /\ step' = "VerifyStartRet"
    /\ UNCHANGED <<flags, notes, pre>>
    /\ Track

\* start_verification: joins the previous thread, then spawns the worker
\* with the request parameters read from the configuration
start_verification ==
    /\ mainpc = "vs_spawn"
    /\ JoinReturns
    /\ wloc' = [wloc EXCEPT ![nruns + 1] =
                  [NoLocals EXCEPT !.dur = config.dur, !.thr = config.thr]]
    /\ nruns' = nruns + 1
    /\ worker_thread' = nruns + 1
    /\ wpc' = [wpc EXCEPT ![nruns + 1] = "start"]
    /\ reply' = "ok"
    /\ mainpc' = "idle"
    /\ step' = "VerifyStartRet"
    /\ UNCHANGED <<flags, notes, pre>>
    /\ Track

\* VerifyStop(), up to the join inside request_stop_verification
handle_verify_stop_begin ==
    /\ mainpc = "idle"
    /\ step' = "VerifyStopBegin"
    /\ stop_requested' = TRUE
    /\ mainpc' = "stop_join"
    /\ pre' = Snapshot
    /\ UNCHANGED <<claimed, verifying, threads, notes, reply>>
    /\ Track

\* mutant: VerifyStop() clears the flags without joining the worker
handle_verify_stop_return_no_join ==
    /\ mainpc = "stop_join"
    /\ worker_thread' = 0
    /\ verifying' = FALSE
    /\ stop_requested' = FALSE
    /\ step' = "VerifyStopRet"
    /\ reply' = "ok"
    /\ mainpc' = "idle"
    /\ pre' = Returned
    /\ UNCHANGED <<claimed, nruns, wpc, wloc, notes>>
    /\ Track

\* VerifyStop(): the join returns, the flags are cleared
handle_verify_stop_return ==
    /\ mainpc = "stop_join"
    /\ request_stop_verification
    /\ step' = "VerifyStopRet"
    /\ reply' = "ok"
    /\ mainpc' = "idle"
    /\ pre' = Returned
    /\ UNCHANGED <<claimed, nruns, wpc, wloc, notes>>
    /\ Track

\* ------------------------------------------------------------ worker thread
\* a step of the worker sends no method reply and leaves the handler state alone
WorkerFrame ==
    /\ reply' = "none"
    /\ UNCHANGED <<claimed, worker_thread, nruns, mainpc, pre, lock, match, config, env, prog>>

Goto(r, pc) == wpc' = [wpc EXCEPT ![r] = pc]

\* ensure_resources_ready() fails: verify-error, then the early return
WorkerResourcesUnavailable(r) ==
    /\ wpc[r] = "start"
    /\ emit_status_signal(r, "verify-error", "resources-unavailable", 0)
    /\ Goto(r, "early")
    /\ step' = "Worker"
    /\ UNCHANGED <<verifying, stop_requested, wloc>>
    /\ WorkerFrame

\* the FaceEngine constructor throws: verify-error, then the early return
WorkerEngineLoadFailed(r) ==
    /\ wpc[r] = "start"
    /\ emit_status_signal(r, "verify-error", "engine-exception", 0)
    /\ Goto(r, "early")
    /\ step' = "Worker"
    /\ UNCHANGED <<verifying, stop_requested, wloc>>
    /\ WorkerFrame

\* the two early returns: verifying_.store(false); return
WorkerEarlyReturn(r) ==
    /\ wpc[r] = "early"
    /\ verifying' = FALSE
    /\ Goto(r, "exited")
    /\ wloc' = [wloc EXCEPT ![r] = NoLocals]
    /\ step' = "Worker"
    /\ UNCHANGED <<stop_requested, notes>>
    /\ WorkerFrame

\* resources and engine are ready: verify-started
WorkerStarted(r) ==
    /\ wpc[r] = "start"
    /\ emit_status_signal(r, "verify-started", "", 0)
    /\ Goto(r, "open")
    /\ step' = "Worker"
    /\ UNCHANGED <<verifying, stop_requested, wloc>>
    /\ WorkerFrame

\* capture_faces: open_video_capture succeeds, or fails and throws
CaptureOpen(r) ==
    /\ wpc[r] = "open"
    /\ \E ok \in BOOLEAN :
         IF ok THEN /\ Goto(r, "warmup")
                    /\ UNCHANGED wloc
               ELSE /\ Goto(r, "catch")
                    /\ wloc' = [wloc EXCEPT ![r].detail = "open-failed"]
    /\ step' = "Worker"
    /\ UNCHANGED <<verifying, stop_requested, notes>>
    /\ WorkerFrame

\* the warm-up loop ends: its deadline has passed or stop_flag is set
CaptureWarmupEnd(r) ==
    /\ wpc[r] = "warmup"
    /\ Goto(r, "capture")
    /\ wloc' = [wloc EXCEPT ![r].frames = 0, ![r].faces = 0]
    /\ step' = "Worker"
    /\ UNCHANGED <<verifying, stop_requested, notes>>
    /\ WorkerFrame

\* while (!stop_flag.load()) finds the flag set
CaptureStopped(r) ==
    /\ wpc[r] = "capture"
    /\ stop_requested
    /\ Goto(r, "post")
    /\ wloc' = [wloc EXCEPT ![r].miss = FALSE]
    /\ step' = "Worker"
    /\ UNCHANGED <<verifying, stop_requested, notes>>
    /\ WorkerFrame

\* the loop breaks: the capture window has elapsed (capture_duration > 0)
\* or one frame has been read (capture_duration <= 0)
CaptureWindowEnd(r) ==
    /\ wpc[r] = "capture"
    /\ ~stop_requested
    /\ wloc[r].dur \/ wloc[r].frames > 0
    /\ Goto(r, "post")
    /\ wloc' = [wloc EXCEPT ![r].miss = FALSE]
    /\ step' = "Worker"
    /\ UNCHANGED <<verifying, stop_requested, notes>>
    /\ WorkerFrame

\* one iteration that reads a frame: a face is cropped from it, or the
\* frame is kept as fallback while no face has been collected
CaptureFrame(r) ==
    /\ wpc[r] = "capture"
    /\ ~stop_requested
    /\ wloc[r].dur \/ wloc[r].frames = 0
    /\ wloc[r].frames < MaxFrames
    /\ \E face \in BOOLEAN :
         wloc' = [wloc EXCEPT
                    ![r].frames = @ + 1,
                    ![r].miss = FALSE,
                    ![r].faces = IF face THEN @ + 1 ELSE @,
                    ![r].fallback = IF ~face /\ wloc[r].faces = 0 THEN TRUE ELSE @]
    /\ step' = "Worker"
    /\ UNCHANGED <<verifying, stop_requested, wpc, notes>>
    /\ WorkerFrame

\* one iteration in which cap.read fails or returns an empty frame: the
\* loop sleeps and polls again; miss is the parity of such iterations since
\* the last frame
CaptureReadFailed(r) ==
    /\ wpc[r] = "capture"
    /\ ~stop_requested
    /\ wloc[r].dur \/ wloc[r].frames = 0
    /\ wloc' = [wloc EXCEPT ![r].miss = ~@]
    /\ step' = "Worker"
    /\ UNCHANGED <<verifying, stop_requested, wpc, notes>>
    /\ WorkerFrame

\* an OpenCV call inside the warm-up or capture loop throws
CaptureThrows(r) ==
    /\ wpc[r] \in {"warmup", "capture"}
    /\ Goto(r, "catch")
    /\ wloc' = [wloc EXCEPT ![r].detail = "capture-exception", ![r].miss = FALSE]
    /\ step' = "Worker"
    /\ UNCHANGED <<verifying, stop_requested, notes>>
    /\ WorkerFrame

\* after the loop: cap.release(), then the fallback frame is given to the
\* detector once more when no face was collected
CaptureReturn(r) ==
    /\ wpc[r] = "post"
    /\ \E face \in BOOLEAN :
         wloc' = [wloc EXCEPT
                    ![r].faces = IF @ = 0 /\ wloc[r].fallback /\ face THEN 1 ELSE @]
    /\ Goto(r, "check")
    /\ step' = "Worker"
    /\ UNCHANGED <<verifying, stop_requested, notes>>
    /\ WorkerFrame

\* mutant: faces.empty() is tested before stop_requested_
WorkerCheckStop_faces_first(r) ==
    /\ wpc[r] = "check"
    /\ IF wloc[r].faces = 0
         THEN /\ wloc' = [wloc EXCEPT ![r].out = "verify-no-face",
                                      ![r].detail = "no-valid-frames"]
              /\ Goto(r, "emit")
         ELSE IF stop_requested
           THEN /\ wloc' = [wloc EXCEPT ![r].out = "verify-cancelled"]
                /\ Goto(r, "emit")
           ELSE /\ Goto(r, "extract")
                /\ UNCHANGED wloc
    /\ step' = "Worker"
    /\ UNCHANGED <<verifying, stop_requested, notes>>
    /\ WorkerFrame

\* if (stop_requested_.load()) ... else if (faces.empty()) ...
WorkerCheckStop(r) ==
    /\ wpc[r] = "check"
    /\ IF stop_requested
         THEN /\ wloc' = [wloc EXCEPT ![r].out = "verify-cancelled"]
              /\ Goto(r, "emit")
         ELSE IF wloc[r].faces = 0
           THEN /\ wloc' = [wloc EXCEPT ![r].out = "verify-no-face",
                                      ![r].detail = "no-valid-frames"]
                /\ Goto(r, "emit")
           ELSE /\ Goto(r, "extract")
                /\ UNCHANGED wloc
    /\ step' = "Worker"
    /\ UNCHANGED <<verifying, stop_requested, notes>>
    /\ WorkerFrame

\* extract_embedding on every face: some embeddings, none, or an exception
WorkerExtract(r) ==
    /\ wpc[r] = "extract"
    /\ \E res \in {"some", "none", "throws"} :
         CASE res = "some"   -> /\ Goto(r, "match")
                                /\ UNCHANGED wloc
           [] res = "none"   -> /\ wloc' = [wloc EXCEPT ![r].out = "verify-error",
                                                     ![r].detail = "embedding-failed"]
                                /\ Goto(r, "emit")
           [] res = "throws" -> /\ Goto(r, "catch")
                                /\ wloc' = [wloc EXCEPT ![r].detail = "extract-exception"]
    /\ step' = "Worker"
    /\ UNCHANGED <<verifying, stop_requested, notes>>
    /\ WorkerFrame

\* LMDBStore(db_path_, ReadOnly) or get_all_embeddings throws
WorkerStoreThrows(r) ==
    /\ wpc[r] = "match"
    /\ Goto(r, "catch")
    /\ wloc' = [wloc EXCEPT ![r].detail = "store-exception"]
    /\ step' = "Worker"
    /\ UNCHANGED <<verifying, stop_requested, notes>>
    /\ WorkerFrame

\* compute_best_match returns nullopt: verify-no-match, no-enrollment
WorkerNoCandidate(r) ==
    /\ wpc[r] = "match"
    /\ wloc' = [wloc EXCEPT ![r].out = "verify-no-match", ![r].detail = "no-enrollment"]
    /\ Goto(r, "emit")
    /\ step' = "Worker"
    /\ UNCHANGED <<verifying, stop_requested, notes>>
    /\ WorkerFrame

\* mutant: the threshold test is strict
WorkerScored_strict(r) ==
    /\ wpc[r] = "match"
    /\ \E avg \in Sims, name \in Matched :
         wloc' = [wloc EXCEPT ![r].avg = avg,
                              ![r].detail = name,
                              ![r].out = IF avg > wloc[r].thr THEN "verify-match"
                                                             ELSE "verify-no-match"]
    /\ Goto(r, "emit")
    /\ step' = "Worker"
    /\ UNCHANGED <<verifying, stop_requested, notes>>
    /\ WorkerFrame

\* compute_best_match returns the candidate name with average avg:
\* verify-match if avg >= threshold, else verify-no-match; the message
\* "<name>:<avg>" is kept as detail = name and avg
WorkerScored(r) ==
    /\ wpc[r] = "match"
    /\ \E avg \in Sims, name \in Matched :
         wloc' = [wloc EXCEPT ![r].avg = avg,
                              ![r].detail = name,
                              ![r].out = IF avg >= wloc[r].thr THEN "verify-match"
                                                              ELSE "verify-no-match"]
    /\ Goto(r, "emit")
    /\ step' = "Worker"
    /\ UNCHANGED <<verifying, stop_requested, notes>>
    /\ WorkerFrame

\* the emit_status_signal call of the path taken
WorkerEmit(r) ==
    /\ wpc[r] = "emit"
    /\ emit_status_signal(r, wloc[r].out, wloc[r].detail, wloc[r].avg)
    /\ Goto(r, "clear_v")
    /\ step' = "Worker"
    /\ UNCHANGED <<verifying, stop_requested, wloc>>
    /\ WorkerFrame

\* mutant: the exception handler swallows the exception without a signal
WorkerCatch_silent(r) ==
    /\ wpc[r] = "catch"
    /\ Goto(r, "clear_v")
    /\ step' = "Worker"
    /\ UNCHANGED <<verifying, stop_requested, wloc, notes>>
    /\ WorkerFrame

\* catch (const std::exception& ex): verify-error with ex.what()
WorkerCatch(r) ==
    /\ wpc[r] = "catch"
    /\ emit_status_signal(r, "verify-error", wloc[r].detail, 0)
    /\ Goto(r, "clear_v")
    /\ step' = "Worker"
    /\ UNCHANGED <<verifying, stop_requested, wloc>>
    /\ WorkerFrame

\* mutant: the worker clears claimed_ where the code clears verifying_
WorkerClearVerifying_clears_claimed(r) ==
    /\ wpc[r] = "clear_v"
    /\ claimed' = FALSE
    /\ Goto(r, "clear_s")
    /\ step' = "Worker"
    /\ UNCHANGED <<verifying, stop_requested, wloc, notes>>
    /\ reply' = "none"
    /\ UNCHANGED <<worker_thread, nruns, mainpc, pre, lock, match, config, env, prog>>

\* verifying_.store(false)
WorkerClearVerifying(r) ==
    /\ wpc[r] = "clear_v"
    /\ verifying' = FALSE
    /\ Goto(r, "clear_s")
    /\ step' = "Worker"
    /\ UNCHANGED <<stop_requested, wloc, notes>>
    /\ WorkerFrame

\* the last statement: stop_requested_.store(false); the thread function returns
WorkerClearStop(r) ==
    /\ wpc[r] = "clear_s"
    /\ stop_requested' = FALSE
    /\ Goto(r, "exited")
    /\ wloc' = [wloc EXCEPT ![r] = NoLocals]
    /\ step' = "Worker"
    /\ UNCHANGED <<verifying, notes>>
    /\ WorkerFrame

verification_worker(r) ==
    \/ WorkerResourcesUnavailable(r)
    \/ WorkerEngineLoadFailed(r)
    \/ WorkerEarlyReturn(r)
    \/ WorkerStarted(r)
    \/ CaptureOpen(r)
    \/ CaptureWarmupEnd(r)
    \/ CaptureStopped(r)
    \/ CaptureWindowEnd(r)
    \/ CaptureFrame(r)
    \/ CaptureReadFailed(r)
    \/ CaptureThrows(r)
    \/ CaptureReturn(r)
    \/ WorkerCheckStop(r)
    \/ WorkerExtract(r)
    \/ WorkerStoreThrows(r)
    \/ WorkerNoCandidate(r)
    \/ WorkerScored(r)
    \/ WorkerEmit(r)
    \/ WorkerCatch(r)
    \/ WorkerClearVerifying(r)
    \/ WorkerClearStop(r)

Next ==
    \/ handle_claim
    \/ handle_release_idle
    \/ handle_release_begin
    \/ handle_release_return
    \/ handle_verify_start
    \/ start_verification
    \/ handle_verify_stop_begin
    \/ handle_verify_stop_return
    \/ \E r \in Runs : verification_worker(r)

Spec == Init /\ [][Next]_vars

\* Scheduling: the worker thread keeps running, the clock of the capture
\* window advances, the loop polls the cancellation flag, and a handler that
\* has been entered runs to its reply.  Whether a read yields a frame, and
\* which calls the clients send, is left to the environment.
Fairness ==
    /\ \A r \in Runs : /\ WF_vars(verification_worker(r))
                        /\ WF_vars(CaptureWindowEnd(r))
                        /\ WF_vars(CaptureStopped(r))
    /\ WF_vars(handle_release_return)
    /\ WF_vars(handle_verify_stop_return)
    /\ WF_vars(start_verification)

FairSpec == Spec /\ Fairness

\* the same service with the callers of the Device methods recorded
InitLock ==
    /\ SessionInit
    /\ lock = [NoLock EXCEPT !.tracking = TRUE]
    /\ match = NoCall
    /\ config \in Configs
    /\ env = NoEnv
    /\ prog = NoProgram

SpecLock == InitLock /\ [][Next]_vars

\* ------------------------------------------------------------------
\* The matcher: FaceService::compute_best_match and the compute_best
\* lambda of match_user_with_face.  A similarity (dot + 1) * 0.5 is kept
\* in halves, as the integer dot + 1, and an average is kept as the exact
\* fraction sum / count of such halves; -1.0 is the fraction -2 / 1.

MaxQ == 2
MaxS == 2

Dims == {1, 2}
Axis(d, i, s) == [k \in 1..d |-> IF k = i THEN s ELSE 0]
\* two L2-normalised embeddings of dimension d: opposite ones for d = 1,
\* orthogonal ones for d = 2
Embeddings(d) == {Axis(d, d, 1), Axis(d, 1, -1)}
ListsOf(S, n) == UNION {[1..k -> S] : k \in 1..n}
\* embedding lists of one dimension, of 1 to n embeddings
EmbeddingLists(n) == UNION {ListsOf(Embeddings(d), n) : d \in Dims}

\* stores: some of the names, each with a list of stored embeddings
Stores == UNION {[N -> EmbeddingLists(MaxS) \cup {<<>>}] : N \in SUBSET Names}
\* the order in which the cursor visits the keys
KeyOrder == <<"a", "b">>
\* the configured profile name; "c" is in no store
Targets == Names \cup {"c"}

RECURSIVE get_all_embeddings(_, _)
get_all_embeddings(store, keys) ==
    IF keys = <<>> THEN <<>>
    ELSE (IF Head(keys) \in DOMAIN store
            THEN <<[name |-> Head(keys), list |-> store[Head(keys)]]>>
            ELSE <<>>) \o get_all_embeddings(store, Tail(keys))

RECURSIVE inner_product(_, _, _)
inner_product(query, stored, init) ==
    IF query = <<>> THEN init
    ELSE inner_product(Tail(query), Tail(stored), init + Head(query) * Head(stored))

\* sum_similarity = 0.0, max_similarity = -1.0f, count = 0
NoScore == [sum |-> 0, max |-> -2, count |-> 0]
\* best_avg = -1.0f, best_max = -1.0f, best_name empty
NoBest == [name |-> "", sum |-> -2, count |-> 1, max |-> -2]
NoScan == [best |-> NoBest, scored |-> <<>>]
nullopt == [found |-> FALSE, name |-> "", sum |-> 0, count |-> 0, max |-> 0]

\* mutant: max_similarity = sim, without std::max
score_pair_overwrites_max(acc, query, stored) ==
    LET sim == inner_product(query, stored, 0) + 1
    IN  [sum |-> acc.sum + sim, max |-> sim, count |-> acc.count + 1]

\* the body of the inner loop
score_pair(acc, query, stored) ==
    LET sim == inner_product(query, stored, 0) + 1
    IN  [sum |-> acc.sum + sim,
         max |-> IF acc.max < sim THEN sim ELSE acc.max,
         count |-> acc.count + 1]

\* for (const auto& query : embeddings)
RECURSIVE score_queries(_, _, _)
score_queries(acc, embeddings, stored) ==
    IF embeddings = <<>> THEN acc
    ELSE score_queries(score_pair(acc, Head(embeddings), stored), Tail(embeddings), stored)

\* for (const auto& stored : stored_list)
RECURSIVE score_stored(_, _, _)
score_stored(acc, stored_list, embeddings) ==
    IF stored_list = <<>> THEN acc
    ELSE score_stored(score_queries(acc, embeddings, Head(stored_list)),
                      Tail(stored_list), embeddings)

\* mutant: only embeddings.front() is scored against the stored embeddings
score_front_only(stored_list, embeddings) ==
    score_stored(NoScore, stored_list, <<Head(embeddings)>>)

\* the two loops over a profile, from the initial tallies
score(stored_list, embeddings) == score_stored(NoScore, stored_list, embeddings)

dimension_mismatch(stored_list, dim) ==
    \E i \in DOMAIN stored_list : Len(stored_list[i]) # dim

\* avg_similarity > best_avg, on fractions with positive denominators
greater_avg(sc, best) == sc.sum * best.count > best.sum * sc.count

\* one iteration of the loop over the entries, with the three skips; wanted
\* is the name the entries are filtered by, or empty for no filter; scored
\* keeps the tallies of the entries that were scored
visit(e, embeddings, dim, wanted, st) ==
    IF wanted # {} /\ e.name \notin wanted THEN st
    ELSE IF e.list = <<>> THEN st
    ELSE IF dimension_mismatch(e.list, dim) THEN st
    ELSE LET sc == score(e.list, embeddings)
         IN  IF sc.count = 0 THEN st
             ELSE [best |-> IF greater_avg(sc, st.best)
                              THEN [name |-> e.name, sum |-> sc.sum,
                                    count |-> sc.count, max |-> sc.max]
                              ELSE st.best,
                   scored |-> Append(st.scored,
                                     [name |-> e.name, sum |-> sc.sum,
                                      count |-> sc.count, max |-> sc.max])]

\* the loop over the entries with break for continue at a dimension mismatch
RECURSIVE best_of_break(_, _, _, _, _)
best_of_break(entries, embeddings, dim, wanted, st) ==
    IF entries = <<>> THEN st
    ELSE IF /\ wanted = {} \/ Head(entries).name \in wanted
            /\ Head(entries).list # <<>>
            /\ dimension_mismatch(Head(entries).list, dim)
      THEN st
      ELSE best_of_break(Tail(entries), embeddings, dim, wanted,
                         visit(Head(entries), embeddings, dim, wanted, st))

\* for (const auto& [name, stored_list] : entries)
RECURSIVE best_of(_, _, _, _, _)
best_of(entries, embeddings, dim, wanted, st) ==
    IF entries = <<>> THEN st
    ELSE best_of(Tail(entries), embeddings, dim, wanted,
                 visit(Head(entries), embeddings, dim, wanted, st))

\* mutant: the loop over the entries ends at a dimension mismatch
scan_break(entries, embeddings, wanted) ==
    IF embeddings = <<>> THEN NoScan
    ELSE best_of_break(entries, embeddings, Len(Head(embeddings)), wanted, NoScan)

\* the loop over all entries, from best_avg = -1
scan(entries, embeddings, wanted) ==
    IF embeddings = <<>> THEN NoScan
    ELSE best_of(entries, embeddings, Len(Head(embeddings)), wanted, NoScan)

\* mutant: the name filter is dropped
compute_best_match_unfiltered(embeddings, entries, required_name, allow_all) ==
    IF embeddings = <<>> \/ entries = <<>> THEN nullopt
    ELSE LET best == scan(entries, embeddings, {}).best
         IN  IF best.sum < 0 THEN nullopt
             ELSE [found |-> TRUE, name |-> best.name, sum |-> best.sum,
                   count |-> best.count, max |-> best.max]

\* mutant: best_avg <= 0 is reported as no candidate
compute_best_match_nonpositive(embeddings, entries, required_name, allow_all) ==
    IF embeddings = <<>> \/ entries = <<>> THEN nullopt
    ELSE LET best == scan(entries, embeddings,
                          IF ~allow_all THEN required_name ELSE {}).best
         IN  IF best.sum <= 0 THEN nullopt
             ELSE [found |-> TRUE, name |-> best.name, sum |-> best.sum,
                   count |-> best.count, max |-> best.max]

\* required_name is an optional: the empty set or one name
compute_best_match(embeddings, entries, required_name, allow_all) ==
    IF embeddings = <<>> \/ entries = <<>> THEN nullopt
    ELSE LET best == scan(entries, embeddings,
                          IF ~allow_all THEN required_name ELSE {}).best
         IN  IF best.sum < 0 THEN nullopt
             ELSE [found |-> TRUE, name |-> best.name, sum |-> best.sum,
                   count |-> best.count, max |-> best.max]

\* the tuple {best_name, best_avg, best_max} of the PAM module, with the
\* caller's test for no candidate: best_name.empty() under allow_all,
\* avg_similarity < 0 otherwise
compute_best(profiles, target, query_embeddings, allow_all) ==
    LET best == scan(profiles, query_embeddings, target).best
    IN  [found |-> IF allow_all THEN best.name # "" ELSE ~(best.sum < 0),
         name |-> best.name, sum |-> best.sum,
         count |-> best.count, max |-> best.max]

InitMatch ==
    /\ SessionInit
    /\ lock = NoLock
    /\ config = NoConfig
    /\ env = NoEnv
    /\ prog = NoProgram
    /\ \E store \in Stores, q \in EmbeddingLists(MaxQ) \cup {<<>>},
          t \in Targets, all \in BOOLEAN :
         match = [pc |-> "ready",
                  entries |-> get_all_embeddings(store, KeyOrder),
                  embeddings |-> q, target_name |-> t, allow_all |-> all,
                  result |-> nullopt, scored |-> <<>>]

MatchFrame == UNCHANGED <<claimed, verifying, stop_requested, worker_thread, nruns,
                          wpc, wloc, notes, mainpc, reply, step, pre, lock, config, env, prog>>

\* verification_worker: compute_best_match(embeddings, store,
\*   allow_all ? nullopt : target_name, allow_all)
service_best_match ==
    /\ match.pc = "ready"
    /\ match' = [match EXCEPT
         !.pc = "service",
         !.result = compute_best_match(match.embeddings, match.entries,
                        IF match.allow_all THEN {} ELSE {match.target_name},
                        match.allow_all),
         !.scored = IF match.entries = <<>> THEN <<>>
                    ELSE scan(match.entries, match.embeddings,
                              IF match.allow_all THEN {} ELSE {match.target_name}).scored]
    /\ MatchFrame

\* match_user_with_face, once the query and the profiles are not empty
pam_best_match ==
    /\ match.pc = "ready"
    /\ match.embeddings # <<>>
    /\ match.entries # <<>>
    /\ match' = [match EXCEPT
         !.pc = "pam",
         !.result = compute_best(match.entries,
                        IF match.allow_all THEN {} ELSE {match.target_name},
                        match.embeddings, match.allow_all),
         !.scored = scan(match.entries, match.embeddings,
                         IF match.allow_all THEN {} ELSE {match.target_name}).scored]
    /\ MatchFrame

NextMatch == service_best_match \/ pam_best_match

SpecMatch == InitMatch /\ [][NextMatch]_vars

\* compute_best_match(embeddings, store, std::nullopt, false): the call
\* with neither a required name nor allow_all
untargeted_best_match ==
    /\ match.pc = "ready"
    /\ match' = [match EXCEPT
         !.pc = "untargeted",
         !.allow_all = FALSE,
         !.result = compute_best_match(match.embeddings, match.entries, {}, FALSE),
         !.scored = IF match.entries = <<>> THEN <<>>
                    ELSE scan(match.entries, match.embeddings, {}).scored]
    /\ MatchFrame

SpecUntargeted == InitMatch /\ [][untargeted_best_match]_vars

\* ------------------------------------------------------------------
\* What the three front ends report for the answer of their matcher.  The
\* answer is none or a name with its average; averages and the threshold
\* are levels in Sims.

NoAnswer == [found |-> FALSE, name |-> "", avg |-> 0]
Answers == {NoAnswer} \cup [found : {TRUE}, name : Names, avg : Sims]

\* verification_worker: the status and the message of the signal
service_outcome(res, thr) ==
    IF ~res.found
      THEN [status |-> "verify-no-match", text |-> "no-enrollment", name |-> "", avg |-> 0]
      ELSE [status |-> IF res.avg >= thr THEN "verify-match" ELSE "verify-no-match",
            text |-> "name:avg", name |-> res.name, avg |-> res.avg]

\* match_user_with_face: the return code and the line written to syslog
pam_outcome(res, thr, allow_all) ==
    IF ~allow_all
      THEN IF ~res.found
             THEN [status |-> "PAM_AUTH_ERR", text |-> "no match for requested name",
                   name |-> "", avg |-> 0]
           ELSE IF res.avg < thr
             THEN [status |-> "PAM_AUTH_ERR", text |-> "similarity below threshold",
                   name |-> "", avg |-> 0]
           ELSE [status |-> "PAM_SUCCESS", text |-> "", name |-> "", avg |-> 0]
      ELSE IF ~res.found \/ res.avg < thr
             THEN [status |-> "PAM_AUTH_ERR", text |-> "no profile exceeded threshold",
                   name |-> "", avg |-> 0]
           ELSE [status |-> "PAM_SUCCESS", text |-> "", name |-> "", avg |-> 0]

\* lxfu query: the lines printed; with no candidate scored no name was
\* considered, so matched_name_present is false
cli_outcome(res, thr, match_all) ==
    IF ~res.found
      THEN [status |-> "no-candidate",
            text |-> IF ~match_all THEN "No enrolled samples for name" ELSE "No match found",
            name |-> "", avg |-> 0]
      ELSE [status |-> "best-match",
            text |-> IF res.avg >= thr THEN "Authentication successful"
                     ELSE "Authentication failed: best match below threshold",
            name |-> res.name, avg |-> res.avg]

Fronts == {"service", "pam", "cli"}

outcome_of(front, res, thr, allow_all) ==
    CASE front = "service" -> service_outcome(res, thr)
      [] front = "pam"     -> pam_outcome(res, thr, allow_all)
      [] front = "cli"     -> cli_outcome(res, thr, allow_all)

InitReport ==
    /\ SessionInit
    /\ lock = NoLock
    /\ config = NoConfig
    /\ env = NoEnv
    /\ prog = NoProgram
    /\ \E front \in Fronts, res \in Answers, thr \in Sims, all \in BOOLEAN :
         match = [pc |-> "answer", front |-> front, res |-> res, thr |-> thr,
                  allow_all |-> all, outcome |-> service_outcome(NoAnswer, 0)]

service_report ==
    /\ match.pc = "answer" /\ match.front = "service"
    /\ match' = [match EXCEPT !.pc = "reported",
                              !.outcome = service_outcome(match.res, match.thr)]
    /\ MatchFrame

pam_report ==
    /\ match.pc = "answer" /\ match.front = "pam"
    /\ match' = [match EXCEPT !.pc = "reported",
                              !.outcome = pam_outcome(match.res, match.thr, match.allow_all)]
    /\ MatchFrame

cli_report ==
    /\ match.pc = "answer" /\ match.front = "cli"
    /\ match' = [match EXCEPT !.pc = "reported",
                              !.outcome = cli_outcome(match.res, match.thr, match.allow_all)]
    /\ MatchFrame

NextReport == service_report \/ pam_report \/ cli_report

SpecReport == InitReport /\ [][NextReport]_vars

\* ------------------------------------------------------------------
\* LMDBStore::serialize_embeddings and deserialize_embeddings.  A value is
\* kept as its 4-byte words plus the number of bytes (0 to 3) after the
\* last whole word; a float is the word of its bit pattern, copied by
\* memcpy in both directions.

MaxCount == 2
MaxDim == 2
MaxWords == 5

\* bit patterns of a component, and header values
Words == -1..2
WordLists == UNION {[1..c -> [1..dm -> Words]] : c \in 1..MaxCount, dm \in 1..MaxDim}
Values ==
    [words : UNION {[1..n -> Words] : n \in 0..MaxWords}, extra : 0..3]

mv_size(value) == 4 * Len(value.words) + value.extra

RECURSIVE Flatten(_)
Flatten(list) == IF list = <<>> THEN <<>> ELSE Head(list) \o Flatten(Tail(list))

Failed(what) == [ok |-> FALSE, list |-> <<>>, what |-> what]
Decoded(list) == [ok |-> TRUE, list |-> list, what |-> ""]

\* mutant: the header is written as dim, count
serialize_embeddings_dim_first(embeddings) ==
    LET count == Len(embeddings)
        dim == IF count > 0 THEN Len(embeddings[1]) ELSE 0
    IN  IF \E i \in DOMAIN embeddings : Len(embeddings[i]) # dim
          THEN [ok |-> FALSE, words |-> <<>>, extra |-> 0]
          ELSE [ok |-> TRUE, words |-> <<dim, count>> \o Flatten(embeddings), extra |-> 0]

\* count, dim, then the components of every embedding; throws on an
\* embedding of another size than the first
serialize_embeddings(embeddings) ==
    LET count == Len(embeddings)
        dim == IF count > 0 THEN Len(embeddings[1]) ELSE 0
    IN  IF \E i \in DOMAIN embeddings : Len(embeddings[i]) # dim
          THEN [ok |-> FALSE, words |-> <<>>, extra |-> 0]
          ELSE [ok |-> TRUE, words |-> <<count, dim>> \o Flatten(embeddings), extra |-> 0]

\* the payload of the multi-sample layout cut into first rows of second words
Rows(words, first, second) ==
    [i \in 1..first |-> SubSeq(words, 3 + (i - 1) * second, 2 + i * second)]

\* the legacy branch: one embedding of dim = first components
legacy_layout(value) ==
    LET dim == value.words[1]
    IN  IF dim <= 0 THEN Failed("Invalid embedding dimension stored in legacy LMDB entry")
        ELSE IF 4 + dim * 4 # mv_size(value)
          THEN Failed("LMDB embedding payload size mismatch")
          ELSE Decoded(<<SubSeq(value.words, 2, 1 + dim)>>)

\* mutant: the multi-sample layout is accepted with second >= 0
deserialize_embeddings_zero_dim(value) ==
    IF mv_size(value) < 4
      THEN Failed("LMDB value too small to contain embedding metadata")
    ELSE IF /\ mv_size(value) >= 8
            /\ value.words[1] > 0 /\ value.words[2] >= 0
            /\ 8 + value.words[1] * value.words[2] * 4 = mv_size(value)
      THEN Decoded(Rows(value.words, value.words[1], value.words[2]))
      ELSE legacy_layout(value)

\* mutant: a legacy record longer than its dimension says is accepted
deserialize_embeddings_truncating(value) ==
    IF mv_size(value) < 4
      THEN Failed("LMDB value too small to contain embedding metadata")
    ELSE IF /\ mv_size(value) >= 8
            /\ value.words[1] > 0 /\ value.words[2] > 0
            /\ 8 + value.words[1] * value.words[2] * 4 = mv_size(value)
      THEN Decoded(Rows(value.words, value.words[1], value.words[2]))
    ELSE IF value.words[1] > 0 /\ 4 + value.words[1] * 4 < mv_size(value)
      THEN Decoded(<<SubSeq(value.words, 2, 1 + value.words[1])>>)
      ELSE legacy_layout(value)

deserialize_embeddings(value) ==
    IF mv_size(value) < 4
      THEN Failed("LMDB value too small to contain embedding metadata")
    ELSE IF /\ mv_size(value) >= 8
            /\ value.words[1] > 0 /\ value.words[2] > 0
            /\ 8 + value.words[1] * value.words[2] * 4 = mv_size(value)
      THEN Decoded(Rows(value.words, value.words[1], value.words[2]))
      ELSE legacy_layout(value)

NoValue == [words |-> <<>>, extra |-> 0]

\* a call starts from a list to serialize or from the bytes of a record
InitCodec ==
    /\ SessionInit
    /\ lock = NoLock
    /\ config = NoConfig
    /\ env = NoEnv
    /\ prog = NoProgram
    /\ \/ \E list \in WordLists :
            match = [pc |-> "list", list |-> list, value |-> NoValue,
                     result |-> Failed("")]
       \/ \E value \in Values :
            match = [pc |-> "value", list |-> <<>>, value |-> value,
                     result |-> Failed("")]

serialize_call ==
    /\ match.pc = "list"
    /\ LET buffer == serialize_embeddings(match.list)
       IN  match' = [match EXCEPT
                       !.pc = IF buffer.ok THEN "buffer" ELSE "thrown",
                       !.value = [words |-> buffer.words, extra |-> buffer.extra]]
    /\ MatchFrame

deserialize_call ==
    /\ match.pc \in {"buffer", "value"}
    /\ match' = [match EXCEPT
                   !.pc = IF match.pc = "buffer" THEN "round-trip" ELSE "decoded",
                   !.result = deserialize_embeddings(match.value)]
    /\ MatchFrame

NextCodec == serialize_call \/ deserialize_call

SpecCodec == InitCodec /\ [][NextCodec]_vars

\* ------------------------------------------------------------------
\* LMDBStore on one environment.  env.data is the committed database: a
\* function from the stored keys to their values.  A write transaction
\* works on a private copy (view) that mdb_txn_commit makes the committed
\* database; a read transaction reads the database as committed when it
\* began.  env.log is the sequence of committed databases, and a process
\* keeps in "at" how many there were when its transaction began.  One process
\* writes (lxfu enroll / delete / clear), another reads (a query).

MaxWrites == 2

StoreEmbeddings == {<<1>>, <<2>>, <<1, 2>>}

Record(list) ==
    LET buffer == serialize_embeddings(list)
    IN  [words |-> buffer.words, extra |-> buffer.extra]

\* the databases a process can find: none, a legacy record, a
\* multi-sample record, a record shorter than its header says
InitialStores ==
    { <<>>,
      [k \in {"a"} |-> [words |-> <<1, 1>>, extra |-> 0]],
      [k \in {"a", "b"} |-> IF k = "a" THEN Record(<<<<1>>, <<2>>>>) ELSE Record(<<<<1, 2>>>>)],
      [k \in {"b"} |-> [words |-> <<3, 1>>, extra |-> 0]] }

mdb_put(view, key, val) ==
    [k \in DOMAIN view \cup {key} |-> IF k = key THEN val ELSE view[k]]
mdb_del(view, key) == [k \in DOMAIN view \ {key} |-> view[k]]
mdb_drop(view) == <<>>
ms_entries(view) == Cardinality(DOMAIN view)

\* fetch_embeddings_for_key: an absent key gives the empty list
fetch_embeddings_for_key(view, key) ==
    IF key \notin DOMAIN view THEN Decoded(<<>>) ELSE deserialize_embeddings(view[key])

\* the keys of a database in cursor order
RECURSIVE InOrder(_, _)
InOrder(view, keys) ==
    IF keys = <<>> THEN <<>>
    ELSE (IF Head(keys) \in DOMAIN view THEN <<Head(keys)>> ELSE <<>>)
         \o InOrder(view, Tail(keys))

\* what get_all_embeddings returns on a database
read_all(view) ==
    LET keys == InOrder(view, KeyOrder)
    IN  IF \E i \in DOMAIN keys : ~deserialize_embeddings(view[keys[i]]).ok
          THEN [status |-> "StorageError", entries |-> <<>>]
          ELSE [status |-> "ok",
                entries |-> [i \in DOMAIN keys |->
                               [name |-> keys[i],
                                list |-> deserialize_embeddings(view[keys[i]]).list]]]

StoreFrame == UNCHANGED <<claimed, verifying, stop_requested, worker_thread, nruns,
                          wpc, wloc, notes, mainpc, reply, step, pre, lock, match, config, prog>>

InitStore ==
    /\ SessionInit
    /\ lock = NoLock
    /\ config = NoConfig
    /\ match = NoCall
    /\ prog = NoProgram
    /\ \E data \in InitialStores :
         env = [data |-> data, log |-> <<data>>, w |-> Idle, r |-> Idle]

AtRest(proc) == proc.pc \in {"idle", "returned", "thrown"}
CanWrite == AtRest(env.w) /\ Len(env.log) <= MaxWrites

\* mdb_txn_begin of store_embedding
store_begin ==
    /\ CanWrite
    /\ \E name \in Names, embedding \in StoreEmbeddings :
         env' = [env EXCEPT !.w = [Idle EXCEPT !.pc = "store", !.op = "store",
                                               !.name = name, !.embedding = embedding,
                                               !.view = env.data, !.txn = TRUE,
                                               !.at = Len(env.log)]]
    /\ StoreFrame

Fetched == fetch_embeddings_for_key(env.w.view, env.w.name)

\* deserialize_embeddings throws inside fetch_embeddings_for_key: nothing
\* catches it before the caller, the transaction is not aborted
store_fetch_throws ==
    /\ env.w.pc = "store"
    /\ ~Fetched.ok
    /\ env' = [env EXCEPT !.w.pc = "thrown", !.w.status = "StorageError"]
    /\ StoreFrame

\* the profile holds embeddings of another size
store_mismatch ==
    /\ env.w.pc = "store"
    /\ Fetched.ok
    /\ Fetched.list # <<>> /\ Len(Fetched.list[1]) # Len(env.w.embedding)
    /\ env' = [env EXCEPT !.w.pc = "thrown", !.w.status = "DimensionMismatch",
                          !.w.txn = FALSE]
    /\ StoreFrame

CanPut ==
    /\ env.w.pc = "store"
    /\ Fetched.ok
    /\ ~(Fetched.list # <<>> /\ Len(Fetched.list[1]) # Len(env.w.embedding))

\* mutant: the size of the new embedding is not compared
store_put_unchecked ==
    /\ env.w.pc = "store"
    /\ Fetched.ok
    /\ LET buffer == serialize_embeddings(Append(Fetched.list, env.w.embedding))
       IN  env' = IF buffer.ok
                    THEN [env EXCEPT !.w.pc = "put", !.w.before = Fetched.list,
                                     !.w.view = mdb_put(env.w.view, env.w.name,
                                                        [words |-> buffer.words, extra |-> buffer.extra])]
                    ELSE [env EXCEPT !.w.pc = "thrown", !.w.status = "StorageError"]
    /\ StoreFrame

\* mutant: the new embedding is put in front of the list
store_put_prepends ==
    /\ CanPut
    /\ env' = [env EXCEPT !.w.pc = "put", !.w.before = Fetched.list,
                          !.w.view = mdb_put(env.w.view, env.w.name,
                                             Record(<<env.w.embedding>> \o Fetched.list))]
    /\ StoreFrame

\* mutant: the header of the new record is written to the committed
\* database before the transaction commits
store_put_in_place ==
    /\ CanPut
    /\ env' = [env EXCEPT !.w.pc = "put", !.w.before = Fetched.list,
                          !.w.view = mdb_put(env.w.view, env.w.name,
                                             Record(Append(Fetched.list, env.w.embedding))),
                          !.data = mdb_put(env.data, env.w.name,
                                           [words |-> SubSeq(Record(Append(Fetched.list, env.w.embedding)).words, 1, 2),
                                            extra |-> 0])]
    /\ StoreFrame

\* push_back, serialize_embeddings and a successful mdb_put
store_put ==
    /\ CanPut
    /\ env' = [env EXCEPT !.w.pc = "put", !.w.before = Fetched.list,
                          !.w.view = mdb_put(env.w.view, env.w.name,
                                             Record(Append(Fetched.list, env.w.embedding)))]
    /\ StoreFrame

\* mdb_put fails: abort and throw
store_put_fails ==
    /\ CanPut
    /\ env' = [env EXCEPT !.w.pc = "thrown", !.w.status = "StorageError",
                          !.w.before = Fetched.list, !.w.txn = FALSE]
    /\ StoreFrame

\* mdb_txn_commit succeeds; return embeddings.size()
store_commit ==
    /\ env.w.pc = "put"
    /\ env' = [env EXCEPT !.data = env.w.view, !.log = Append(env.log, env.w.view),
                          !.w.pc = "stored", !.w.status = "ok", !.w.txn = FALSE,
                          !.w.count = Len(env.w.before) + 1]
    /\ StoreFrame

\* mdb_txn_commit fails: its result is not looked at
store_commit_fails ==
    /\ env.w.pc = "put"
    /\ env' = [env EXCEPT !.w.pc = "stored", !.w.status = "ok", !.w.txn = FALSE,
                          !.w.count = Len(env.w.before) + 1]
    /\ StoreFrame

\* lxfu enroll: get_embeddings(name) after the store, in a read transaction
enroll_get ==
    /\ env.w.pc = "stored"
    /\ LET got == fetch_embeddings_for_key(env.data, env.w.name)
       IN  env' = [env EXCEPT !.w.pc = IF got.ok THEN "got" ELSE "thrown",
                              !.w.status = IF got.ok THEN "ok" ELSE "StorageError",
                              !.w.list = got.list]
    /\ StoreFrame

\* lxfu enroll: size() after that
enroll_size ==
    /\ env.w.pc = "got"
    /\ env' = [env EXCEPT !.w.pc = "returned", !.w.size = ms_entries(env.data)]
    /\ StoreFrame

\* mdb_txn_begin of delete_embedding
delete_begin ==
    /\ CanWrite
    /\ \E name \in Names :
         env' = [env EXCEPT !.w = [Idle EXCEPT !.pc = "delete", !.op = "delete",
                                               !.name = name, !.view = env.data,
                                               !.txn = TRUE, !.at = Len(env.log)]]
    /\ StoreFrame

\* mdb_del says MDB_NOTFOUND
delete_not_found ==
    /\ env.w.pc = "delete"
    /\ env.w.name \notin DOMAIN env.w.view
    /\ env' = [env EXCEPT !.w.pc = "returned", !.w.status = "ok", !.w.found = FALSE,
                          !.w.txn = FALSE]
    /\ StoreFrame

\* mutant: delete empties the database
delete_commit_drops_all ==
    /\ env.w.pc = "delete"
    /\ env.w.name \in DOMAIN env.w.view
    /\ LET view == mdb_drop(env.w.view)
       IN  env' = [env EXCEPT !.data = view, !.log = Append(env.log, view),
                              !.w.view = view, !.w.pc = "returned", !.w.status = "ok",
                              !.w.found = TRUE, !.w.txn = FALSE]
    /\ StoreFrame

\* mdb_del and mdb_txn_commit
delete_commit ==
    /\ env.w.pc = "delete"
    /\ env.w.name \in DOMAIN env.w.view
    /\ LET view == mdb_del(env.w.view, env.w.name)
       IN  env' = [env EXCEPT !.data = view, !.log = Append(env.log, view),
                              !.w.view = view, !.w.pc = "returned", !.w.status = "ok",
                              !.w.found = TRUE, !.w.txn = FALSE]
    /\ StoreFrame

\* mdb_txn_begin of clear
clear_begin ==
    /\ CanWrite
    /\ env' = [env EXCEPT !.w = [Idle EXCEPT !.pc = "clear", !.op = "clear",
                                             !.view = env.data, !.txn = TRUE,
                                             !.at = Len(env.log)]]
    /\ StoreFrame

\* mdb_drop and mdb_txn_commit
clear_commit ==
    /\ env.w.pc = "clear"
    /\ env' = [env EXCEPT !.data = mdb_drop(env.w.view),
                          !.log = Append(env.log, mdb_drop(env.w.view)),
                          !.w.view = mdb_drop(env.w.view), !.w.pc = "returned",
                          !.w.status = "ok", !.w.txn = FALSE]
    /\ StoreFrame

\* mdb_txn_begin(MDB_RDONLY) of get_embeddings
get_begin ==
    /\ AtRest(env.r)
    /\ \E name \in Names :
         env' = [env EXCEPT !.r = [Idle EXCEPT !.pc = "get", !.op = "get", !.name = name,
                                               !.view = env.data, !.txn = TRUE,
                                               !.at = Len(env.log)]]
    /\ StoreFrame

\* mdb_get, deserialize_embeddings, mdb_txn_abort; a throw of
\* deserialize_embeddings leaves the transaction open
get_return ==
    /\ env.r.pc = "get"
    /\ LET got == fetch_embeddings_for_key(env.r.view, env.r.name)
       IN  env' = [env EXCEPT !.r.pc = IF got.ok THEN "returned" ELSE "thrown",
                              !.r.status = IF got.ok THEN "ok" ELSE "StorageError",
                              !.r.list = got.list,
                              !.r.txn = ~got.ok]
    /\ StoreFrame

\* mdb_txn_begin(MDB_RDONLY) of get_all_embeddings
get_all_begin ==
    /\ AtRest(env.r)
    /\ env' = [env EXCEPT !.r = [Idle EXCEPT !.pc = "getAll", !.op = "getAll",
                                             !.view = env.data, !.txn = TRUE,
                                             !.at = Len(env.log)]]
    /\ StoreFrame

\* the cursor loop and mdb_txn_abort
get_all_return ==
    /\ env.r.pc = "getAll"
    /\ LET got == read_all(env.r.view)
       IN  env' = [env EXCEPT !.r.pc = IF got.status = "ok" THEN "returned" ELSE "thrown",
                              !.r.status = got.status,
                              !.r.entries = got.entries,
                              !.r.txn = (got.status # "ok")]
    /\ StoreFrame

\* every call into LMDB succeeds
NextStore ==
    \/ store_begin \/ store_fetch_throws \/ store_mismatch \/ store_put \/ store_commit
    \/ enroll_get \/ enroll_size
    \/ delete_begin \/ delete_not_found \/ delete_commit
    \/ clear_begin \/ clear_commit
    \/ get_begin \/ get_return \/ get_all_begin \/ get_all_return

SpecStore == InitStore /\ [][NextStore]_vars

\* mdb_put and mdb_txn_commit can fail
NextStoreFaults == NextStore \/ store_put_fails \/ store_commit_fails

SpecStoreFaults == InitStore /\ [][NextStoreFaults]_vars

\* ------------------------------------------------------------------
\* pam_sm_authenticate: up to max(1, retries) calls of
\* match_user_with_face on frames captured from the device.

MaxAttempts == 2

\* capture_faces_from_device gives up after this many failed reads in a row
max_consecutive_failures == 20

PamLocals ==
    [total_frames |-> 0, faces |-> 0, fallback |-> FALSE,
     consecutive_failures |-> 0, failure |-> "none", scored |-> FALSE,
     avg |-> 0, rc |-> "none"]

ProgFrame == UNCHANGED <<claimed, verifying, stop_requested, worker_thread, nruns,
                         wpc, wloc, notes, mainpc, reply, step, pre, lock, match,
                         config, env>>

InitPam ==
    /\ SessionInit
    /\ lock = NoLock
    /\ config = NoConfig
    /\ env = NoEnv
    /\ match = NoCall
    /\ \E attempts \in 1..MaxAttempts, dur \in BOOLEAN, thr \in Sims \ {0},
          all \in BOOLEAN :
         prog = [pc |-> "start", attempts |-> attempts, attempt |-> 1, dur |-> dur,
                 thr |-> thr, allow_all |-> all, l |-> PamLocals, result |-> "none"]

\* the call returns rc to the PAM stack
PamReturn(rc) == prog' = [prog EXCEPT !.pc = "done", !.result = rc]
\* match_user_with_face returns rc, or throws, after the collaborator failed
PamFails(failure, rc) ==
    prog' = [prog EXCEPT !.pc = "done", !.result = rc, !.l.failure = failure,
                         !.l.rc = rc]

\* pam_get_user fails or gives no name
pam_no_user ==
    /\ prog.pc = "start"
    /\ PamReturn("PAM_USER_UNKNOWN")
    /\ ProgFrame

\* the loop enters an attempt: match_user_with_face, load_config
pam_attempt ==
    /\ prog.pc = "start"
    /\ prog' = [prog EXCEPT !.pc = "open", !.l = PamLocals]
    /\ ProgFrame

\* open_video_capture, apply_camera_defaults, warm_up_camera
pam_open ==
    /\ prog.pc = "open"
    /\ prog' = [prog EXCEPT !.pc = "loop"]
    /\ ProgFrame

\* open_video_capture fails: load_faces throws, caught in match_user_with_face
pam_open_fails ==
    /\ prog.pc = "open"
    /\ PamFails("open", "PAM_AUTHINFO_UNAVAIL")
    /\ ProgFrame

\* the window has elapsed (capture_duration > 0) or one frame has been read
pam_window_end ==
    /\ prog.pc = "loop"
    /\ prog.dur \/ prog.l.total_frames > 0
    /\ prog' = [prog EXCEPT !.pc = "post"]
    /\ ProgFrame

PamLoops == prog.pc = "loop" /\ (prog.dur \/ prog.l.total_frames = 0)

\* cap.read fails: count it, break at max_consecutive_failures
pam_read_fails ==
    /\ PamLoops
    /\ prog' = [prog EXCEPT
                  !.l.consecutive_failures = @ + 1,
                  !.pc = IF prog.l.consecutive_failures + 1 >= max_consecutive_failures
                           THEN "post" ELSE "loop"]
    /\ ProgFrame

\* a frame is read: crop_to_face gives a face, or the frame is kept as
\* fallback while no face was collected
pam_frame ==
    /\ PamLoops
    /\ prog.l.total_frames < MaxFrames
    /\ \E face \in BOOLEAN :
         prog' = [prog EXCEPT
                    !.l.consecutive_failures = 0,
                    !.l.total_frames = @ + 1,
                    !.l.faces = IF face THEN @ + 1 ELSE @,
                    !.l.fallback = IF ~face /\ prog.l.faces = 0 THEN TRUE ELSE @]
    /\ ProgFrame

\* an OpenCV call in the loop throws
pam_capture_throws ==
    /\ prog.pc = "loop"
    /\ PamFails("capture", "PAM_AUTHINFO_UNAVAIL")
    /\ ProgFrame

\* cap.release(), the fallback frame is given to the detector once more,
\* capture_faces_from_device returns
pam_capture_return ==
    /\ prog.pc = "post"
    /\ \E face \in BOOLEAN :
         prog' = [prog EXCEPT
                    !.pc = "captured",
                    !.l.faces = IF @ = 0 /\ prog.l.fallback /\ face THEN 1 ELSE @]
    /\ ProgFrame

\* face_images.empty(): "no valid face frames captured"
pam_no_faces ==
    /\ prog.pc = "captured"
    /\ prog.l.faces = 0
    /\ prog' = [prog EXCEPT !.pc = "failed", !.l.rc = "PAM_AUTH_ERR"]
    /\ ProgFrame

\* extract_embedding gives an embedding for some face
pam_extract ==
    /\ prog.pc = "captured"
    /\ prog.l.faces > 0
    /\ prog' = [prog EXCEPT !.pc = "embedded"]
    /\ ProgFrame

\* the engine throws, or every embedding is empty
pam_extract_fails ==
    /\ prog.pc = "captured"
    /\ prog.l.faces > 0
    /\ PamFails("extract", "PAM_AUTHINFO_UNAVAIL")
    /\ ProgFrame

\* LMDBStore cannot be opened or read, or holds no profile
pam_store_fails ==
    /\ prog.pc = "embedded"
    /\ PamFails("store", "PAM_AUTHINFO_UNAVAIL")
    /\ ProgFrame

\* the profiles are read and compute_best gives its answer
pam_match ==
    /\ prog.pc = "embedded"
    /\ \E res \in Answers :
         LET rc == pam_outcome(res, prog.thr, prog.allow_all).status
         IN  prog' = [prog EXCEPT
                        !.pc = IF rc = "PAM_AUTH_ERR" THEN "failed" ELSE "done",
                        !.result = IF rc = "PAM_AUTH_ERR" THEN @ ELSE rc,
                        !.l.scored = res.found, !.l.avg = res.avg, !.l.rc = rc]
    /\ ProgFrame

\* PAM_AUTH_ERR with attempts left: prompt, sleep, next attempt
pam_retry ==
    /\ prog.pc = "failed"
    /\ prog.attempt < prog.attempts
    /\ prog' = [prog EXCEPT !.pc = "open", !.attempt = @ + 1, !.l = PamLocals]
    /\ ProgFrame

\* PAM_AUTH_ERR in the last attempt: the loop ends, return PAM_AUTH_ERR
pam_give_up ==
    /\ prog.pc = "failed"
    /\ prog.attempt >= prog.attempts
    /\ PamReturn("PAM_AUTH_ERR")
    /\ ProgFrame

NextPam ==
    \/ pam_no_user \/ pam_attempt \/ pam_open \/ pam_open_fails
    \/ pam_window_end \/ pam_read_fails \/ pam_frame \/ pam_capture_throws
    \/ pam_capture_return \/ pam_no_faces \/ pam_extract \/ pam_extract_fails
    \/ pam_store_fails \/ pam_match \/ pam_retry \/ pam_give_up

SpecPam == InitPam /\ [][NextPam]_vars

\* ------------------------------------------------------------------
\* lxfu enroll from a device: the capture loop and what follows it.

MaxEnrollFrames == 2

capture_duration_sec == 10
max_reopen_attempts == 2
enroll_max_consecutive_failures == 45
failure_reopen_threshold == 15

InitEnroll ==
    /\ SessionInit
    /\ lock = NoLock
    /\ config = NoConfig
    /\ env = NoEnv
    /\ match = NoCall
    /\ prog = [pc |-> "open", elapsed |-> 0, frames_captured |-> 0,
               frames_with_faces |-> 0, consecutive_failures |-> 0,
               reopen_attempts |-> 0, error |-> "none"]

EnrollThrows(what) == prog' = [prog EXCEPT !.pc = "thrown", !.error = what]

\* open_video_capture, apply_camera_defaults, warm_up_camera, start_time
enroll_open ==
    /\ prog.pc = "open"
    /\ prog' = [prog EXCEPT !.pc = "loop"]
    /\ ProgFrame

enroll_open_fails ==
    /\ prog.pc = "open"
    /\ EnrollThrows("Failed to open device")
    /\ ProgFrame

\* a second of the steady clock passes while the loop runs
enroll_tick ==
    /\ prog.pc = "loop"
    /\ prog.elapsed < capture_duration_sec
    /\ prog' = [prog EXCEPT !.elapsed = @ + 1]
    /\ ProgFrame

\* elapsed >= capture_duration_sec: break
enroll_window_end ==
    /\ prog.pc = "loop"
    /\ prog.elapsed >= capture_duration_sec
    /\ prog' = [prog EXCEPT !.pc = "after"]
    /\ ProgFrame

EnrollReads == prog.pc = "loop" /\ prog.elapsed < capture_duration_sec
Reopens ==
    /\ prog.consecutive_failures + 1 = failure_reopen_threshold
    /\ prog.reopen_attempts < max_reopen_attempts

\* cap.read fails at the reopen threshold: the device is opened again
enroll_reopen ==
    /\ EnrollReads
    /\ Reopens
    /\ prog' = [prog EXCEPT !.consecutive_failures = @ + 1, !.reopen_attempts = @ + 1]
    /\ ProgFrame

\* ... and open_video_capture fails
enroll_reopen_fails ==
    /\ EnrollReads
    /\ Reopens
    /\ prog' = [prog EXCEPT !.consecutive_failures = @ + 1, !.reopen_attempts = @ + 1,
                            !.pc = "thrown", !.error = "Failed to reinitialize device"]
    /\ ProgFrame

\* cap.read fails for the max_consecutive_failures-th time in a row
enroll_no_frames ==
    /\ EnrollReads
    /\ ~Reopens
    /\ prog.consecutive_failures + 1 >= enroll_max_consecutive_failures
    /\ prog' = [prog EXCEPT !.consecutive_failures = @ + 1,
                            !.pc = "thrown", !.error = "Camera did not produce frames"]
    /\ ProgFrame

\* cap.read fails: sleep and read again
enroll_read_fails ==
    /\ EnrollReads
    /\ ~Reopens
    /\ prog.consecutive_failures + 1 < enroll_max_consecutive_failures
    /\ prog' = [prog EXCEPT !.consecutive_failures = @ + 1]
    /\ ProgFrame

\* a frame is read; crop_to_face gives a face or none
enroll_frame ==
    /\ EnrollReads
    /\ prog.frames_captured < MaxEnrollFrames
    /\ \E face \in BOOLEAN :
         prog' = [prog EXCEPT
                    !.consecutive_failures = 0,
                    !.frames_captured = @ + 1,
                    !.frames_with_faces = IF face THEN @ + 1 ELSE @]
    /\ ProgFrame

\* face_images.empty(): "Enrollment failed: No valid faces detected"
enroll_no_faces ==
    /\ prog.pc = "after"
    /\ prog.frames_with_faces = 0
    /\ prog' = [prog EXCEPT !.pc = "failed"]
    /\ ProgFrame

\* the embeddings of the collected faces are extracted and stored
enroll_store ==
    /\ prog.pc = "after"
    /\ prog.frames_with_faces > 0
    /\ prog' = [prog EXCEPT !.pc = "enrolled"]
    /\ ProgFrame

NextEnroll ==
    \/ enroll_open \/ enroll_open_fails \/ enroll_tick \/ enroll_window_end
    \/ enroll_reopen \/ enroll_reopen_fails \/ enroll_no_frames
    \/ enroll_read_fails \/ enroll_frame \/ enroll_no_faces \/ enroll_store

SpecEnroll == InitEnroll /\ [][NextEnroll]_vars

\* ------------------------------------------------------------------
\* main of lxfu-face-service: run() with signal_handler installed for
\* SIGINT and SIGTERM.  No thread blocks the signals, so the handler, and
\* stop() in it, runs on whichever thread the kernel delivers to, between
\* any two steps of that thread.

InitStop ==
    /\ SessionInit
    /\ lock = NoLock
    /\ match = NoCall
    /\ config \in Configs
    /\ env = NoEnv
    /\ prog = [pc |-> "run", running |-> TRUE, on |-> "none", joins |-> 0]

StopFrame == UNCHANGED <<claimed, nruns, wpc, wloc, notes, mainpc, reply, step, pre,
                         lock, match, config, env>>

\* the request-handling thread is blocked in worker_thread_.join() of
\* request_stop_verification or start_verification
InHandlerJoin ==
    /\ mainpc \in {"rel_join", "stop_join", "vs_spawn"}
    /\ Joinable
    /\ wpc[worker_thread] # "exited"

\* the signal is delivered on the main thread: stop() stores running_ and
\* stop_requested_ and, if worker_thread_ is joinable, calls join
signal_on_main ==
    /\ prog.pc = "run"
    /\ stop_requested' = TRUE
    /\ prog' = [prog EXCEPT
                  !.pc = "sig_join", !.running = FALSE, !.on = "main",
                  !.joins = IF ~Joinable THEN 0 ELSE IF InHandlerJoin THEN 2 ELSE 1]
    /\ UNCHANGED <<verifying, worker_thread>>
    /\ StopFrame

\* the signal is delivered on worker thread r: worker_thread_ is joinable
\* and is this thread; join fails with resource_deadlock_would_occur and
\* the std::system_error leaves the signal handler
signal_on_worker(r) ==
    /\ prog.pc = "run"
    /\ r \in LiveWorkers
    /\ worker_thread = r
    /\ stop_requested' = TRUE
    /\ prog' = [prog EXCEPT
                  !.pc = "aborted", !.running = FALSE, !.on = "worker",
                  !.joins = IF InHandlerJoin THEN 2 ELSE 1]
    /\ UNCHANGED <<verifying, worker_thread>>
    /\ StopFrame

\* the join in stop() returns; the flags are cleared, sd_bus_close; the
\* handler returns to what the main thread was doing
stop_returns ==
    /\ prog.pc = "sig_join"
    /\ request_stop_verification
    /\ prog' = [prog EXCEPT !.pc = "closing"]
    /\ StopFrame

\* the join that the signal interrupted goes on with a thread that has
\* been joined meanwhile: undefined; besides returning, it can fail
interrupted_join_fails ==
    /\ prog.pc = "closing"
    /\ prog.joins = 2
    /\ mainpc # "idle"
    /\ prog' = [prog EXCEPT !.pc = "aborted"]
    /\ UNCHANGED <<verifying, stop_requested, worker_thread>>
    /\ StopFrame

\* the handler that was interrupted runs to its reply
stop_resume ==
    /\ prog.pc = "closing"
    /\ (handle_release_return \/ start_verification \/ handle_verify_stop_return)

\* run(): the loop ends on running_ = false; request_stop_verification
\* up to its join
run_loop_ends ==
    /\ prog.pc = "closing"
    /\ mainpc = "idle"
    /\ stop_requested' = TRUE
    /\ prog' = [prog EXCEPT !.pc = "final_join"]
    /\ UNCHANGED <<verifying, worker_thread>>
    /\ StopFrame

\* run(): the join returns, the flags are cleared, the bus is closed
run_returns ==
    /\ prog.pc = "final_join"
    /\ request_stop_verification
    /\ prog' = [prog EXCEPT !.pc = "stopped"]
    /\ StopFrame

\* the worker goes on while the main thread is in a join
stop_worker(r) ==
    /\ prog.pc \in {"sig_join", "closing", "final_join"}
    /\ verification_worker(r)

NextStop ==
    \/ (prog.pc = "run" /\ Next)
    \/ signal_on_main
    \/ \E r \in Runs : signal_on_worker(r)
    \/ stop_returns
    \/ interrupted_join_fails
    \/ stop_resume
    \/ run_loop_ends
    \/ run_returns
    \/ \E r \in Runs : stop_worker(r)

SpecStop == InitStop /\ [][NextStop]_vars

TypeOK ==
    /\ claimed \in BOOLEAN /\ verifying \in BOOLEAN /\ stop_requested \in BOOLEAN
    /\ worker_thread \in 0..MaxRuns
    /\ nruns \in 0..MaxRuns
    /\ mainpc \in {"idle", "rel_join", "vs_spawn", "stop_join"}
    /\ reply \in {"none", "ok", "EBUSY", "EPERM", "EALREADY"}

\* ------------------------------------------------------------------ claims
\* a step in which the thread of run r returns
Exits(r) == wpc[r] # "exited" /\ wpc'[r] = "exited"
\* a step in which a VerifyStart call enters its handler
VerifyStartStep == step' \in {"VerifyStart", "VerifyStartBegin"}
\* a thread that has exited emits no further signal
ExitedStaysSilent == \A r \in Runs : wpc[r] = "exited" => NotesOf(r)' = NotesOf(r)

\* C1: Claim() succeeds only when the session is Idle and then sets claimed;
\* on a Claimed or Verifying session it replies Busy and changes neither the
\* flags nor the worker.
C1_ClaimOnlyFromIdle ==
    [][step' = "Claim" =>
         IF claimed
           THEN reply' = "EBUSY" /\ UNCHANGED <<flags, threads, notes>>
           ELSE /\ ~verifying /\ LiveWorkers = {}
                /\ reply' = "ok" /\ claimed'
                /\ UNCHANGED <<verifying, stop_requested, threads, notes>>]_vars

C1_Witness == step = "Claim" /\ reply = "EBUSY" /\ claimed /\ verifying /\ LiveWorkers # {}

\* C2: VerifyStart on a Verifying session replies AlreadyInProgress; exactly
\* one worker is live before and after, and flags, worker and signals are
\* untouched.
C2_VerifyStartWhileVerifying ==
    [][(VerifyStartStep /\ claimed /\ verifying) =>
         /\ reply' = "EALREADY"
         /\ mainpc' = "idle"
         /\ Cardinality(LiveWorkers) = 1
         /\ Cardinality(LiveWorkers') = 1
         /\ UNCHANGED <<flags, threads, notes>>]_vars

C2_Witness ==
    /\ step = "VerifyStart" /\ reply = "EALREADY"
    /\ verifying /\ Cardinality(LiveWorkers) = 1

\* C3: VerifyStart on an unclaimed session replies PermissionDenied, spawns
\* no worker, emits no signal and leaves the session state unchanged.
C3_VerifyStartUnclaimed ==
    [][(VerifyStartStep /\ ~claimed) =>
         /\ reply' = "EPERM"
         /\ mainpc' = "idle"
         /\ LiveWorkers' = {}
         /\ UNCHANGED <<flags, threads, notes>>]_vars

C3_Witness == step = "VerifyStart" /\ reply = "EPERM" /\ ~claimed /\ nruns > 0

\* C4: at most one worker thread is executing, and at most one capture
\* device handle is open, in every reachable state.
C4_AtMostOneWorker ==
    /\ Cardinality(LiveWorkers) <= 1
    /\ Cardinality({r \in Runs : DeviceOpen(r)}) <= 1

\* a VerifyStart has been accepted while the previous thread is still live
C4_Witness == mainpc = "vs_spawn" /\ LiveWorkers # {}

\* C5: a run never has two terminal signals, and a run whose thread has
\* returned has exactly one.
C5_ExactlyOneTerminal ==
    \A r \in Runs :
        /\ Len(TerminalsOf(r)) <= 1
        /\ wpc[r] = "exited" => Len(TerminalsOf(r)) = 1

C5_Witness ==
    \E r \in Runs :
        /\ wpc[r] = "exited"
        /\ Len(NotesOf(r)) = 2
        /\ NotesOf(r)[2].kind = "verify-error"
        /\ NotesOf(r)[2].detail = "store-exception"

C7_ReleaseWaitsForWorker ==
    [][/\ (step' = "ReleaseBegin" /\ LiveWorkers # {}) => stop_requested'
       /\ (step' = "ReleaseRet" /\ pre.running) =>
             /\ LiveWorkers' = {}
             /\ ~claimed' /\ ~verifying' /\ ~stop_requested'
             /\ mainpc' = "idle" /\ reply' = "ok"
             /\ notes' = notes
       /\ ExitedStaysSilent]_vars

C7_Witness ==
    /\ step = "ReleaseRet" /\ pre.running
    /\ \E r \in Runs : Len(NotesOf(r)) = 2 /\ NotesOf(r)[2].kind = "verify-cancelled"
    /\ ~claimed /\ ~verifying /\ LiveWorkers = {}

\* C8: VerifyStop() with a worker running returns only when no worker thread
\* is live; on return verifying is false, the session is still claimed, and
\* no signal of an exited run follows.
C8_VerifyStopWaitsForWorker ==
    [][/\ (step' = "VerifyStopRet" /\ pre.running) =>
             /\ LiveWorkers' = {}
             /\ claimed' /\ ~verifying'
             /\ mainpc' = "idle" /\ reply' = "ok"
             /\ notes' = notes
       /\ ExitedStaysSilent]_vars

C8_Witness ==
    /\ step = "VerifyStopRet" /\ pre.running
    /\ \E r \in Runs : Len(NotesOf(r)) = 2 /\ NotesOf(r)[2].kind = "verify-cancelled"
    /\ claimed /\ ~verifying /\ LiveWorkers = {}

\* C9: VerifyStop() with no worker running replies success, emits nothing,
\* and returns with claimed, verifying and the cancellation flag as it
\* found them.
C9_VerifyStopIdempotent ==
    [][(step' = "VerifyStopRet" /\ ~pre.running) =>
         /\ reply' = "ok"
         /\ claimed' = pre.claimed
         /\ verifying' = pre.verifying
         /\ stop_requested' = pre.stop
         /\ Len(notes') = pre.nnotes]_vars

\* a second VerifyStop in a row on a claimed session whose run has ended
C9_Witness ==
    /\ step = "VerifyStopRet" /\ ~pre.running /\ claimed
    /\ worker_thread = 0 /\ nruns > 0

\* C10: when the worker thread returns, on any path, both verifying and the
\* cancellation flag are clear (verifying may already belong to the next
\* accepted VerifyStart).
C10_WorkerClearsBothFlags ==
    [][\A r \in Runs : Exits(r) =>
          /\ ~stop_requested'
          /\ mainpc # "vs_spawn" => ~verifying']_vars

\* C11: under fair scheduling every run that has started eventually emits
\* its terminal signal and returns, with no help from VerifyStop or Release,
\* whatever the request parameters and whatever the camera does.
C11_EveryRunTerminates ==
    \A r \in Runs :
        (wpc[r] = "start") ~> (wpc[r] = "exited" /\ Len(TerminalsOf(r)) = 1)

\* the positions of the worker between the start of the warm-up loop and
\* the test of stop_requested_ that follows capture_faces
CapStates == {"warmup", "capture", "post", "check"}
LastNote == notes[Len(notes)]

C13_StartedFirst ==
    \A i \in 1..Len(notes) :
        notes[i].kind \in Terminal =>
            \E j \in 1..(i - 1) :
                notes[j].run = notes[i].run /\ notes[j].kind = "verify-started"

\* C14: when compute_best_match has returned, the outcome chosen is
\* verify-match exactly if a candidate came back with average >= threshold
\* and verify-no-match otherwise, and the signal then emitted carries that
\* outcome, the candidate's name and its average.
C14_MatchIffAtLeastThreshold ==
    [][\A r \in Runs :
          /\ (wpc[r] = "match" /\ wpc'[r] = "emit") =>
                 wloc'[r].out = IF wloc'[r].detail \in Matched /\ wloc'[r].avg >= wloc[r].thr
                                  THEN "verify-match" ELSE "verify-no-match"
          /\ (wpc[r] = "emit" /\ wpc'[r] # "emit") =>
                 /\ Len(notes') = Len(notes) + 1
                 /\ LastNote' = [run |-> r, kind |-> wloc[r].out,
                                 detail |-> wloc[r].detail, avg |-> wloc[r].avg]]_vars

\* a match whose average equals the threshold
C14_Witness ==
    \E r \in Runs :
        /\ wpc[r] = "clear_v"
        /\ wloc[r].avg = wloc[r].thr /\ wloc[r].thr > 0
        /\ LastNote = [run |-> r, kind |-> "verify-match",
                       detail |-> "a", avg |-> wloc[r].avg]

\* C15: a Claim succeeds only if no other client holds a Claim that it has
\* not released itself.
C15_ExclusiveClaim ==
    [][(step' = "Claim" /\ reply' = "ok") => lock.holders \subseteq {lock'.caller}]_vars

\* ------------------------------------------------------------------
\* The matcher, measured without its loops

MatchDone == match.pc \in {"service", "pam"}
Wanted == IF match.allow_all THEN {} ELSE {match.target_name}
StoredNames == {match.entries[i].name : i \in DOMAIN match.entries}

\* the matcher that produced match.result, applied to other arguments
Rematch(entries, embeddings) ==
    IF match.pc = "service"
      THEN compute_best_match(embeddings, entries, Wanted, match.allow_all)
      ELSE compute_best(entries, Wanted, embeddings, match.allow_all)

\* an entry that has no stored embedding, or one of another dimension
\* than the query's
Unusable(e) ==
    \/ e.list = <<>>
    \/ \E i \in DOMAIN e.list : Len(e.list[i]) # Len(match.embeddings[1])

Survivors ==
    {i \in DOMAIN match.entries :
        /\ match.embeddings # <<>>
        /\ Wanted = {} \/ match.entries[i].name \in Wanted
        /\ ~Unusable(match.entries[i])}

RECURSIVE SumFn(_, _)
SumFn(f, S) ==
    IF S = {} THEN 0
    ELSE LET x == CHOOSE y \in S : TRUE IN f[x] + SumFn(f, S \ {x})

Dot(q, e) == SumFn([k \in DOMAIN q |-> q[k] * e[k]], DOMAIN q)
Pairs(i) == (DOMAIN match.entries[i].list) \X (DOMAIN match.embeddings)
PairSims(i) ==
    [p \in Pairs(i) |-> Dot(match.embeddings[p[2]], match.entries[i].list[p[1]]) + 1]
PairSum(i) == SumFn(PairSims(i), Pairs(i))
PairMax(i) ==
    CHOOSE m \in {PairSims(i)[p] : p \in Pairs(i)} :
        \A p \in Pairs(i) : PairSims(i)[p] <= m
EntryOf(name) == CHOOSE i \in DOMAIN match.entries : match.entries[i].name = name
Perms(n) == {p \in [1..n -> 1..n] : \A a, b \in 1..n : a # b => p[a] # p[b]}

\* C16: with allow_all false and a target name that is no profile of the
\* store, the matcher returns no candidate, whatever the store and the
\* query hold.
C16_AbsentTargetGivesNone ==
    (MatchDone /\ ~match.allow_all /\ match.target_name \notin StoredNames)
        => ~match.result.found

\* the target is absent and the answer is none, though under allow_all a
\* profile of the same store scores the highest possible average
C16_Witness ==
    /\ match.pc = "service" /\ ~match.allow_all
    /\ match.target_name \notin StoredNames
    /\ ~match.result.found
    /\ LET all == compute_best_match(match.embeddings, match.entries, {}, TRUE)
       IN  all.found /\ all.sum = 2 * all.count

\* C17: the entries scored are exactly the surviving candidates, and each
\* is scored on its Q*S (stored, query) pairs: count is Q*S, the average is
\* the sum of the Q*S similarities over Q*S, the maximum is the largest of
\* them and is at least the average.
C17_ScoresEveryPair ==
    MatchDone =>
        /\ {match.scored[k].name : k \in DOMAIN match.scored}
              = {match.entries[i].name : i \in Survivors}
        /\ Len(match.scored) = Cardinality(Survivors)
        /\ \A k \in DOMAIN match.scored :
              LET sc == match.scored[k]
                  i == EntryOf(sc.name)
              IN  /\ sc.count = Len(match.embeddings) * Len(match.entries[i].list)
                  /\ sc.sum = PairSum(i)
                  /\ sc.max = PairMax(i)
                  /\ sc.max * sc.count >= sc.sum
        /\ match.result.found =>
              \E k \in DOMAIN match.scored :
                  match.scored[k] = [name |-> match.result.name, sum |-> match.result.sum,
                                     count |-> match.result.count, max |-> match.result.max]

\* a candidate with several stored embeddings scored against several query
\* embeddings, whose maximum exceeds its average
C17_Witness ==
    /\ MatchDone
    /\ \E k \in DOMAIN match.scored :
          /\ match.scored[k].count > Len(match.embeddings)
          /\ match.scored[k].count > Len(match.entries[EntryOf(match.scored[k].name)].list)
          /\ match.scored[k].max * match.scored[k].count > match.scored[k].sum

\* C18: the matcher returns the same name, average and maximum for every
\* reordering of the query list.
C18_QueryOrderIrrelevant ==
    MatchDone =>
        \A p \in Perms(Len(match.embeddings)) :
            Rematch(match.entries,
                    [k \in DOMAIN match.embeddings |-> match.embeddings[p[k]]])
              = match.result

\* a candidate found from a query of different embeddings that score
\* differently
C18_Witness ==
    /\ match.pc = "service" /\ match.result.found
    /\ Len(match.embeddings) > 1
    /\ match.embeddings[1] # match.embeddings[Len(match.embeddings)]
    /\ match.result.max * match.result.count > match.result.sum

\* C19: a profile with no stored embedding or with a stored embedding of
\* another dimension than the query's is never returned, and the result is
\* the one computed from the store without such profiles.
C19_UnusableProfilesSkipped ==
    (MatchDone /\ match.embeddings # <<>>) =>
        /\ \A i \in DOMAIN match.entries :
              (Unusable(match.entries[i]) /\ match.result.found)
                  => match.result.name # match.entries[i].name
        /\ Rematch(SelectSeq(match.entries, LAMBDA e : ~Unusable(e)), match.embeddings)
              = match.result

\* the first profile has embeddings of another dimension and the second
\* one is returned
C19_Witness ==
    /\ match.pc = "service" /\ match.result.found
    /\ Len(match.entries) > 1
    /\ match.entries[1].list # <<>> /\ Unusable(match.entries[1])
    /\ match.result.name = match.entries[Len(match.entries)].name

\* C20: the matcher returns none exactly if no candidate was scored on any
\* pair; otherwise it returns a surviving candidate with that candidate's
\* average, and no surviving candidate has a greater average.
C20_HighestAverage ==
    MatchDone =>
        IF Survivors = {}
          THEN ~match.result.found
          ELSE /\ match.result.found
               /\ \E i \in Survivors :
                     /\ match.result.name = match.entries[i].name
                     /\ match.result.sum * Cardinality(Pairs(i))
                           = PairSum(i) * match.result.count
               /\ \A j \in Survivors :
                     PairSum(j) * match.result.count
                        <= match.result.sum * Cardinality(Pairs(j))

\* two candidates were scored and the later, better one is returned
C20_Witness ==
    /\ match.pc = "service" /\ match.result.found
    /\ Cardinality(Survivors) > 1
    /\ match.result.name = match.entries[Len(match.entries)].name

C22_BelowThresholdDistinctFromNone ==
    (match.pc = "reported" /\ ~match.res.found) =>
        \A res \in Answers :
            (res.found /\ res.avg < match.thr) =>
                outcome_of(match.front, res, match.thr, match.allow_all) # match.outcome

\* ------------------------------------------------------------------
\* The record layouts, from their definition

ValueBytes == mv_size(match.value)
\* the length is 8 + sampleCount * dimension * 4 with both positive
FitsMultiSample ==
    /\ ValueBytes >= 8
    /\ match.value.words[1] > 0 /\ match.value.words[2] > 0
    /\ ValueBytes = 8 + match.value.words[1] * match.value.words[2] * 4
\* the length is 4 + dimension * 4 with the dimension positive
FitsLegacy ==
    /\ ValueBytes >= 4
    /\ match.value.words[1] > 0
    /\ ValueBytes = 4 + match.value.words[1] * 4
\* the bytes of the components of a decoded list
ListBytes(list) == 4 * Len(Flatten(list))

\* C25: serializing a non-empty list of embeddings of one dimension and
\* deserializing the bytes gives the list back: same count, dimension,
\* order and components.
C25_RoundTrip ==
    (match.pc = "round-trip") =>
        /\ match.result.ok
        /\ match.result.list = match.list

\* a list of several embeddings, with count and dimension different and
\* the embeddings not all alike, has made the trip
C25_Witness ==
    /\ match.pc = "round-trip"
    /\ Len(match.list) > 1
    /\ Len(match.list[1]) # Len(match.list)
    /\ match.list[1] # match.list[Len(match.list)]
    /\ match.result.list = match.list

\* the record is a dimension d > 0 followed by exactly d components
IsLegacyRecord ==
    /\ match.value.extra = 0
    /\ Len(match.value.words) >= 2
    /\ match.value.words[1] = Len(match.value.words) - 1

\* C26: a record in the legacy layout decodes to the one-element list of
\* its vector, whatever the bit patterns of the components; it is never
\* read as a multi-sample record.
C26_LegacyDecodesToOne ==
    (match.pc = "decoded" /\ IsLegacyRecord) =>
        /\ match.result.ok
        /\ match.result.list = <<Tail(match.value.words)>>

\* a legacy record of several components, the first of which has a bit
\* pattern that reads as a positive integer, was decoded
C26_Witness ==
    /\ match.pc = "decoded"
    /\ IsLegacyRecord
    /\ Len(match.value.words) > 2
    /\ match.value.words[2] > 0
    /\ match.result.list = <<Tail(match.value.words)>>

\* C27: a record whose length fits neither layout is refused, and a
\* decoded list together with its header covers exactly the bytes of the
\* record.
C27_SizeMismatchFails ==
    (match.pc = "decoded") =>
        /\ (~FitsMultiSample /\ ~FitsLegacy) => ~match.result.ok
        /\ match.result.ok =>
             ListBytes(match.result.list) + (IF FitsMultiSample THEN 8 ELSE 4) = ValueBytes

\* a record holding more bytes than its positive first word asks for in
\* the legacy layout, some of them after the last whole word, was refused
C27_Witness ==
    /\ match.pc = "decoded"
    /\ ValueBytes >= 8
    /\ match.value.words[1] > 0
    /\ ValueBytes > 4 + match.value.words[1] * 4
    /\ match.value.extra > 0
    /\ ~match.result.ok

\* ------------------------------------------------------------------
\* The store, from what a caller sees

\* the list get(name) gives on a committed database
Held(data, name) ==
    IF name \in DOMAIN data THEN deserialize_embeddings(data[name]) ELSE Decoded(<<>>)
\* the database committed before the last commit
Previous == env.log[Len(env.log) - 1]
Enrolled == env.w.pc = "returned" /\ env.w.op = "store"

\* C23: after store(name, e), get(name) gives the list held before with e
\* appended as last element, the count returned by store is its length,
\* and size() is the number of names, name counted once.
C23_StoreThenGet ==
    Enrolled =>
        /\ env.w.list = Append(Held(Previous, env.w.name).list, env.w.embedding)
        /\ env.w.count = Len(env.w.list)
        /\ env.w.size = Cardinality(DOMAIN Previous \cup {env.w.name})

\* a third sample was appended to a profile of two, another profile exists
C23_Witness ==
    /\ Enrolled
    /\ Len(env.w.list) = 3
    /\ env.w.list[3] = env.w.embedding
    /\ env.w.list[1] # env.w.list[2]
    /\ env.w.size = 2

\* the profile named in the store in progress holds embeddings of another
\* size than the new one
StoreMismatches ==
    /\ env.w.pc = "store"
    /\ Held(env.data, env.w.name).ok
    /\ Held(env.data, env.w.name).list # <<>>
    /\ Len(Held(env.data, env.w.name).list[1]) # Len(env.w.embedding)
\* every record that decodes holds embeddings of one size, and a record
\* written by store decodes
OneDimension ==
    \A name \in DOMAIN env.data :
        /\ (name \in DOMAIN env.log[1] /\ env.log[1][name] = env.data[name])
             \/ Held(env.data, name).ok
        /\ \A i \in DOMAIN Held(env.data, name).list :
               Len(Held(env.data, name).list[i]) = Len(Held(env.data, name).list[1])

\* C24: a store of an embedding of another size than the profile holds
\* fails with DimensionMismatch and changes nothing in the database; all
\* the embeddings of a profile have one size in every state.
C24_MismatchRejected ==
    /\ []OneDimension
    /\ [][(StoreMismatches /\ env.w' # env.w) =>
            /\ env.w'.pc = "thrown"
            /\ env.w'.status = "DimensionMismatch"
            /\ env'.data = env.data
            /\ env'.log = env.log]_vars

\* an embedding of two components was refused on a profile written with
\* embeddings of one component, after a commit
C24_Witness ==
    /\ env.w.op = "store"
    /\ env.w.status = "DimensionMismatch"
    /\ Len(env.w.embedding) = 2
    /\ Len(env.log) > 1
    /\ Held(env.data, env.w.name).list # <<>>
    /\ Len(Held(env.data, env.w.name).list[1]) = 1

\* C28: a store whose write or commit failed ends in StorageError with
\* the committed database as it was; a store that returned a count has
\* committed a list of that many samples ending in the new one.
C28_NoSuccessWithoutCommit ==
    /\ (env.w.op = "store" /\ env.w.pc = "thrown") => env.data = env.log[Len(env.log)]
    /\ (env.w.op = "store" /\ env.w.pc = "stored") =>
          /\ Held(env.data, env.w.name).ok
          /\ Len(Held(env.data, env.w.name).list) = env.w.count
          /\ Held(env.data, env.w.name).list[env.w.count] = env.w.embedding

\* the committed databases since the read transaction began
Window == env.r.at..Len(env.log)
\* the list a getAll result has for a name
ListIn(entries, name) ==
    IF \E i \in DOMAIN entries : entries[i].name = name
      THEN (CHOOSE e \in {entries[i] : i \in DOMAIN entries} : e.name = name).list
      ELSE <<>>

\* C29: a get or getAll that runs while the writer stores, deletes or
\* clears gives for every profile the list of a database committed between
\* its begin and its return, and fails only on a committed record that
\* does not decode.
C29_ReadsCommittedLists ==
    /\ (env.r.op = "get" /\ env.r.pc = "returned") =>
          \E i \in Window : /\ Held(env.log[i], env.r.name).ok
                            /\ Held(env.log[i], env.r.name).list = env.r.list
    /\ (env.r.op = "get" /\ env.r.pc = "thrown") =>
          \E i \in Window : ~Held(env.log[i], env.r.name).ok
    /\ (env.r.op = "getAll" /\ env.r.pc = "returned") =>
          \A name \in Names :
              \E i \in Window : /\ Held(env.log[i], name).ok
                                /\ Held(env.log[i], name).list = ListIn(env.r.entries, name)
    /\ (env.r.op = "getAll" /\ env.r.pc = "thrown") =>
          \E i \in Window, name \in Names : ~Held(env.log[i], name).ok

\* a getAll began before a store committed and returned after it, with
\* the list from before the commit
C29_Witness ==
    /\ env.r.op = "getAll" /\ env.r.pc = "returned"
    /\ env.r.at < Len(env.log)
    /\ env.w.op = "store" /\ env.w.pc = "stored"
    /\ ListIn(env.r.entries, env.w.name) = Held(env.log[env.r.at], env.w.name).list
    /\ ListIn(env.r.entries, env.w.name) # Held(env.data, env.w.name).list

\* ------------------------------------------------------------------
\* The capture window

\* C30: when capture_faces returns after a window in which frames were
\* read and none gave a face, it returns exactly one image (the last
\* frame read).
C30_FallbackIsLastFrame ==
    [][\A r \in Runs :
          (/\ wpc[r] = "post" /\ wpc'[r] = "check"
           /\ wloc[r].frames >= 1
           /\ wloc[r].faces = 0) =>
              wloc'[r].faces = 1]_vars

\* ------------------------------------------------------------------
\* The session flags

\* C34: in every state verifying implies claimed.
C34_VerifyingImpliesClaimed == verifying => claimed

\* Release() has set the cancellation flag and waits for a worker that is
\* still marked running, in the second run of the session
C34_Witness ==
    /\ verifying /\ claimed
    /\ mainpc = "rel_join"
    /\ nruns = 2
    /\ LiveWorkers # {}

\* C35: outside a VerifyStop or Release in progress the cancellation flag
\* is false, in particular when a worker is spawned; and after a VerifyStop
\* or Release issued while no worker was running no worker runs until it
\* has returned and cleared the flag.
C35_StopOnlyForRunInFlight ==
    /\ mainpc \in {"idle", "vs_spawn"} => ~stop_requested
    /\ (mainpc \in {"rel_join", "stop_join"} /\ ~pre.running) => LiveWorkers = {}

\* a VerifyStop was issued on a claimed session whose only run so far had
\* ended: the flag is set and no worker is there to see it
C35_Witness ==
    /\ mainpc = "stop_join"
    /\ ~pre.running
    /\ stop_requested
    /\ claimed
    /\ nruns = 1

\* ------------------------------------------------------------------
\* The store: transactions and frame

\* C37: when an operation of the store has returned or thrown, the
\* transaction it began has been committed or aborted.
C37_NoTransactionLeftOpen ==
    /\ AtRest(env.w) => ~env.w.txn
    /\ AtRest(env.r) => ~env.r.txn

\* the database committed when the writer's operation began
Before == env.log[env.w.at]
\* the records of the names other than the one the writer works on
Others(data) == [k \in DOMAIN data \ {env.w.name} |-> data[k]]
WriterDone == env.w.pc \in {"stored", "got", "returned", "thrown"}

\* C38: a store or a delete leaves the records of all other names as they
\* were; delete returns true exactly if the name was present; a store that
\* threw and a delete of an absent name leave the whole database as it was.
C38_OtherProfilesUnchanged ==
    (WriterDone /\ env.w.op \in {"store", "delete"}) =>
        /\ Others(env.data) = Others(Before)
        /\ (env.w.op = "delete") => (env.w.found <=> env.w.name \in DOMAIN Before)
        /\ (env.w.op = "delete" /\ ~env.w.found) => env.data = Before
        /\ (env.w.op = "store" /\ env.w.pc = "thrown") => env.data = Before

\* a profile was deleted while another profile was stored, and that one is
\* still there
C38_Witness ==
    /\ env.w.op = "delete" /\ env.w.pc = "returned"
    /\ env.w.found
    /\ env.w.name \notin DOMAIN env.data
    /\ DOMAIN env.data # {}
    /\ Others(env.data) = Others(Before)

\* ------------------------------------------------------------------
\* The matcher without a target

C33_FailuresAreUnavailable ==
    (prog.pc \in {"failed", "done"} /\ prog.l.rc = "PAM_AUTH_ERR") =>
        /\ prog.l.failure = "none"
        /\ prog.l.consecutive_failures < max_consecutive_failures

\* C36: with capture_duration <= 0, capture_faces_from_device returns
\* normally only after exactly one successfully read frame, with at most
\* one face.
C36_OneFrameWithoutDuration ==
    (prog.pc = "captured" /\ ~prog.dur) =>
        (prog.l.total_frames = 1 /\ prog.l.faces <= 1)

\* C31: continued read failure ends the capture with a fatal capture error,
\* never with a normal return of an empty result: a capture that reached
\* the give-up count of failed reads does not return normally.
C31_ReadFailureIsFatal ==
    prog.pc = "captured" => prog.l.consecutive_failures < max_consecutive_failures

\* C32: the capture loop of enrollment has no timeout: it is left only
\* when a face has been found (the code has no cancellation signal).
C32_LoopEndsOnlyOnFace ==
    prog.pc \in {"after", "failed", "enrolled"} => prog.frames_with_faces > 0

\* C39: when the signal handler calls stop(), the worker thread is joined
\* by at most one join at a time and never by the worker itself.
C39_JoinedOnceNeverBySelf ==
    prog.on # "none" => (prog.on # "worker" /\ prog.joins <= 1)

====
